---- MODULE Spec2Model ----
(***************************************************************************)
(* Model of the segment translation synchronization engine of             *)
(* wiki-ai-translation: translate_page.main (status gate, writer/verifier) *)
(* for one (document, language) pair, and runner.process_queue with        *)
(* jobs.next_jobs for the job queue.                                       *)
(***************************************************************************)
EXTENDS Integers, Sequences, FiniteSets, TLC

\* ---------------------------------------------------------------- bounds
\* Segment keys of the document are 1..NumKeys; key 1 is the metadata segment.
NumKeys == 2
\* Source revisions are 1..MaxRev.
MaxRev == 2

\* Rows of the jobs table have ids 1..NumJobs; NumWorkers processes run
\* runner.process_queue.
NumJobs == 2
NumWorkers == 2

Keys == 1..NumKeys
Revs == 1..MaxRev
JobIds == 1..NumJobs
Workers == 1..NumWorkers

\* ------------------------------------------------------- status metadata
\* A status_meta dict is a record [st, rev, orev] for the keys
\* dr_translation_status, dr_source_rev_at_translation, dr_outdated_source_rev.
\* NoKey / NoRev say the key is not in the dict; "" / 0 are the empty string.
NoKey == "<nokey>"
NoRev == 0 - 1
EmptyDict == [st |-> NoKey, rev |-> NoRev, orev |-> NoRev]

\* str.strip().lower() on the status values that occur.
Lower(s) == IF s = "Reviewed" THEN "reviewed" ELSE s

\* translate_page._translation_status_from_ai_info: a falsy status and a
\* missing or blank revision are left out of the dict.
translation_status_from_ai_info(info) ==
    [st   |-> IF info.status # "" THEN info.status ELSE NoKey,
     rev  |-> IF info.source_rev # 0 THEN info.source_rev ELSE NoRev,
     orev |-> IF info.outdated_source_rev # 0 THEN info.outdated_source_rev ELSE NoRev]

\* translate_page._translation_status_from_props: every key whose value is not
\* None is copied, an empty value included.
translation_status_from_props(p) ==
    [st |-> p.st, rev |-> p.rev, orev |-> NoRev]

\* translate_page._parse_status_template followed by the copy loop of
\* _translation_status_from_unit1: only truthy parameters are copied.
\* tpl is the {{Translation_status|...}} marker of the unit text
\* ("" / 0: parameter absent).
params_from_template(tpl) ==
    [st   |-> IF tpl.st # "" THEN tpl.st ELSE NoKey,
     rev  |-> IF tpl.rev # 0 THEN tpl.rev ELSE NoRev,
     orev |-> IF tpl.orev # 0 THEN tpl.orev ELSE NoRev]

\* translate_page._translation_status_from_unit1: a failed read (or a unit
\* that does not exist) gives the empty dict.
translation_status_from_unit1(unit, readOk) ==
    IF readOk /\ unit.kind # "missing" THEN params_from_template(unit.tpl) ELSE EmptyDict

\* Python {**low, **high}: the keys of high win.
DictUpdate(low, high) ==
    [st   |-> IF high.st # NoKey THEN high.st ELSE low.st,
     rev  |-> IF high.rev # NoRev THEN high.rev ELSE low.rev,
     orev |-> IF high.orev # NoRev THEN high.orev ELSE low.orev]

\* translate_page._translation_status_meta_for_page, from the three dicts the
\* reads gave (a failed read gives the empty dict):
\*   out = ai; out = {**props, **out}; if no status: out = {**out, **unit1}
translation_status_meta_for_page(ai, pr, u1) ==
    LET out == DictUpdate(pr, ai)
    IN  IF out.st = NoKey THEN DictUpdate(out, u1) ELSE out

\* translate_page.main lines 1305-1307: normalised status, default machine.
GateStatus(meta) ==
    LET s == IF meta.st = NoKey THEN "" ELSE Lower(meta.st)
    IN  IF s \in {"machine", "reviewed", "outdated"} THEN s ELSE "machine"

\* The gate with the lock taken for outdated only: a reviewed translation whose
\* source is unchanged goes on to translation.
GateDecision_LockOutdatedOnly(status, rev, cur) ==
    IF status = "reviewed" /\ rev # cur THEN "mark_outdated"
    ELSE IF status = "outdated" THEN "locked_outdated"
    ELSE "translate"

\* translate_page.main lines 1308-1352: what the status gate decides.
\* rev is status_meta.get("dr_source_rev_at_translation", "") and cur the
\* current source revision.
GateDecision(status, rev, cur) ==
    IF status \in {"reviewed", "outdated"}
    THEN IF status = "reviewed" /\ rev # cur
         THEN "mark_outdated"
         ELSE IF status = "reviewed" THEN "locked_reviewed" ELSE "locked_outdated"
    ELSE "translate"

\* ------------------------------------------------------- content store
\* A translation unit page Translations:<title>/<key>/<lang>:
\*   kind  "missing" (no revisions), "human" (edited by a person), "mt"
\*         (written by the bot as machine translation);
\*   ver   the source revision an "mt" text was translated from (0 otherwise);
\*   tpl   the {{Translation_status|...}} marker in the text ("" / 0: absent).
NoTpl == [st |-> "", rev |-> 0, orev |-> 0]
MissingUnit == [kind |-> "missing", ver |-> 0, tpl |-> NoTpl]

\* translate_page._build_status_template as main calls it: only status= is
\* passed, so the marker carries no revision parameter.
build_status_template(status) == [st |-> status, rev |-> 0, orev |-> 0]

\* translate_page._upsert_status_template(text, status=...): the old marker is
\* removed and the new one put first; the body of the unit is kept.
upsert_status_template(unit, status) ==
    [unit EXCEPT !.tpl = build_status_template(status)]

\* The text main intends to store for key k in a run on source revision r
\* (lines 1870-1874: the metadata segment gets status=machine).
Intended(k, r) ==
    [kind |-> "mt", ver |-> r,
     tpl |-> IF k = 1 THEN build_status_template("machine") ELSE NoTpl]

VARIABLES
    \* content store, one (document, language) pair
    sourceRev,      \* current revision of the source page
    aiInfo,         \* what get_ai_translation_info returns for <title>/<lang>
    props,          \* page props of <title>/<lang>
    units,          \* translation unit pages by key
    \* one run of translate_page.main
    pc,             \* "idle", "mark_outdated", "translate", "write", "finish", "done"
    args,           \* [dry_run]
    rep,            \* the dicts the three status sources reported to the run
    status_meta,    \* merged status metadata
    status,         \* normalised status of the gate ("none" before the gate)
    plan,           \* [writable, fuzzy, to_translate] of the run
    idx,            \* next key of ordered_keys the write loop handles
    log,            \* history of the run: [writes, attempts, rb, saved, cache, provider, ai]
    result          \* outcome of the run

VARIABLES
    \* the jobs table and the processes that run runner.process_queue
    jobs,           \* committed rows: [status, error] by job id
    wpc,            \* per worker: "idle", "loop", "running", "returned", "exited"
    batch,          \* per worker: the jobs next_jobs returned
    pos,            \* per worker: index of the job of the for loop
    pend,           \* per worker: row updates of its open transaction
    exitJob,        \* per worker: the job whose run raised SystemExit (0: none)
    run_id,         \* per worker: process_queue was called with a run id
    ret,            \* per worker: result_status of the runs that returned in this call
    prow,           \* per worker: run item and pages row of its open transaction
    run_items,      \* committed rows of table run_items, by job
    pages           \* committed: the pages row of the job's page was upserted

qvars == <<jobs, wpc, batch, pos, pend, exitJob, run_id, ret, prow, run_items, pages>>

gvars == <<sourceRev, aiInfo, props, units, pc, args, rep, status_meta, status,
           plan, idx, log, result>>
storeVars == <<sourceRev, aiInfo, props, units>>

NoRep == [ai |-> EmptyDict, props |-> EmptyDict, unit1 |-> EmptyDict]
NoPlan == [writable |-> {}, fuzzy |-> {}, to_translate |-> {}]
NoLog == [writes   |-> <<>>,                      \* keys of unit pages edited, in order
          attempts |-> [k \in Keys |-> 0],        \* edits of the write/verify loop per key
          rb       |-> [k \in Keys |-> <<>>],     \* read-back outcomes per key
          saved    |-> {},                        \* keys with unit_saved = True
          cache    |-> {},                        \* keys upserted into the cache
          provider |-> 0,                         \* engine.translate calls
          ai       |-> <<>>,                      \* set_ai_translation_status calls that succeeded
          failKey  |-> 0]                         \* key whose verification failed
NoResult == "none"

RunInit ==
    /\ pc = "idle"
    /\ args = [dry_run |-> FALSE]
    /\ rep = NoRep
    /\ status_meta = EmptyDict
    /\ status = "none"
    /\ plan = NoPlan
    /\ idx = 0
    /\ log = NoLog
    /\ result = NoResult

GInit ==
    /\ sourceRev = 1
    /\ aiInfo = [status |-> "", source_rev |-> 0, outdated_source_rev |-> 0]
    /\ props = [st |-> NoKey, rev |-> NoRev]
    /\ units = [k \in Keys |-> MissingUnit]
    /\ RunInit

\* ------------------------------------------------------------ environment
\* Everything that changes the wiki from outside the pipeline.  The job queue
\* runs at most one job per pair and main is synchronous, so the model lets
\* the environment act between runs.

\* The source page is edited: a new source revision.
EditSource ==
    /\ pc = "idle"
    /\ sourceRev < MaxRev
    /\ sourceRev' = sourceRev + 1
    /\ UNCHANGED <<aiInfo, props, units, pc, args, rep, status_meta, status,
                   plan, idx, log, result>>

\* The ai-translation annotation of the translated page is set from outside
\* (a reviewer, sync_translation_status.main line 139).
ExtSetAiInfo ==
    /\ pc = "idle"
    /\ \E st \in {"", "machine", "reviewed", "outdated"}, rv \in {0, sourceRev} :
          aiInfo' = [status |-> st, source_rev |-> rv, outdated_source_rev |-> 0]
    /\ UNCHANGED <<sourceRev, props, units, pc, args, rep, status_meta, status,
                   plan, idx, log, result>>

\* The page props of the translated page change.
ExtSetProps ==
    /\ pc = "idle"
    /\ \E st \in {NoKey, "", "reviewed", "outdated"}, rv \in {NoRev, sourceRev} :
          props' = [st |-> st, rev |-> rv]
    /\ UNCHANGED <<sourceRev, aiInfo, units, pc, args, rep, status_meta, status,
                   plan, idx, log, result>>

\* A person edits a translation unit; in the metadata segment the person may
\* set the status marker.
HumanEditUnit ==
    /\ pc = "idle"
    /\ \E k \in Keys, st \in {"", "reviewed", "Reviewed", "outdated"}, rv \in {0, sourceRev} :
          units' = [units EXCEPT ![k] =
                      [kind |-> "human", ver |-> 0,
                       tpl |-> IF k = 1 THEN [st |-> st, rev |-> rv, orev |-> 0] ELSE NoTpl]]
    /\ UNCHANGED <<sourceRev, aiInfo, props, pc, args, rep, status_meta, status,
                   plan, idx, log, result>>

\* --------------------------------------------------- translate_page.main
Finished(res) ==
    /\ pc' = "done"
    /\ result' = res

\* main lines 1286-1352 without the body of the reviewed-to-outdated branch:
\* read the source, read the three status sources, merge, decide.
\*   srcOk     get_page_wikitext(title) returned (line 1286)
\*   redirect  the source text is a redirect (line 1287)
\*   propsOk   get_page_props returned at line 1301 (not guarded)
\*   aiOk, propsOk2, unit1Ok  the reads inside _translation_status_meta_for_page
StartRun ==
    /\ pc = "idle"
    /\ \E dry \in BOOLEAN, srcOk \in BOOLEAN, redirect \in BOOLEAN, propsOk \in BOOLEAN,
          aiOk \in BOOLEAN, propsOk2 \in BOOLEAN, unit1Ok \in BOOLEAN :
          LET ai  == IF aiOk THEN translation_status_from_ai_info(aiInfo) ELSE EmptyDict
              pr  == IF propsOk2 THEN translation_status_from_props(props) ELSE EmptyDict
              u1  == translation_status_from_unit1(units[1], unit1Ok)
              asked == DictUpdate(pr, ai).st = NoKey
              meta == translation_status_meta_for_page(ai, pr, u1)
              st  == GateStatus(meta)
              dec == GateDecision(st, meta.rev, sourceRev)
          IN  /\ args' = [dry_run |-> dry]
              /\ IF ~srcOk \/ (~redirect /\ ~propsOk)
                 THEN /\ Finished("error")
                      /\ UNCHANGED <<rep, status_meta, status>>
                 ELSE IF redirect
                 THEN /\ Finished("skip_redirect")
                      /\ UNCHANGED <<rep, status_meta, status>>
                 ELSE /\ rep' = [ai |-> ai, props |-> pr,
                                 unit1 |-> IF asked THEN u1 ELSE EmptyDict]
                      /\ status_meta' = meta
                      /\ status' = st
                      /\ IF dec \in {"locked_reviewed", "locked_outdated"}
                         THEN Finished(dec)
                         ELSE pc' = dec /\ result' = result
    /\ UNCHANGED <<sourceRev, aiInfo, props, units, plan, idx, log>>

\* main lines 1310-1346: the translation is reviewed and the source changed.
\* Every exception of the block is caught at line 1342 and only logged.
\*   readOk  get_page_wikitext(unit1_title) returned
\*   editOk  client.edit returned
\*   aiOk    one of the two attempts of _write_ai_status_with_retry succeeded
MarkOutdated ==
    /\ pc = "mark_outdated"
    /\ \E readOk \in BOOLEAN, editOk \in BOOLEAN, aiOk \in BOOLEAN :
          LET canRead == readOk /\ units[1].kind # "missing"
              edited  == canRead /\ ~args.dry_run /\ editOk
              atTr    == IF status_meta.rev \in {NoRev, 0} THEN sourceRev ELSE status_meta.rev
              newAi   == [status |-> "outdated", source_rev |-> atTr,
                          outdated_source_rev |-> sourceRev]
          IN  /\ units' = IF edited
                          THEN [units EXCEPT ![1] = upsert_status_template(units[1], "outdated")]
                          ELSE units
              /\ aiInfo' = IF edited /\ aiOk THEN newAi ELSE aiInfo
              /\ log' = [log EXCEPT
                           !.writes = IF edited THEN Append(@, 1) ELSE @,
                           !.ai = IF edited /\ aiOk THEN Append(@, newAi) ELSE @]
    /\ Finished("outdated")
    /\ UNCHANGED <<sourceRev, props, args, rep, status_meta, status, plan, idx>>

\* main lines 1353-1891: fetch the segments, partition them by the cache,
\* call the provider, compose the texts.  The cache store and the fuzzy flags
\* of the Translate extension belong to collaborators: what they answer is an
\* input of the run.
\*   out     "ok", "no_segments" (SystemExit, line 1366) or "error" (a fetch
\*           or the provider raised)
\*   cached  keys served from the cache or copied through (cached_by_key)
\*   fz      fuzzy_keys, unt  untranslated_keys (lines 1440-1457)
\* Cached and Fuzzy are the answers the collaborators may give.
TranslateOn(Cached, Fuzzy) ==
    /\ pc = "translate"
    /\ \E out \in {"ok", "no_segments", "error"}, cached \in Cached, fz \in Fuzzy :
       \E unt \in SUBSET cached :
          LET to_translate == Keys \ cached
          IN  CASE out = "no_segments" ->
                     /\ Finished("SystemExit")
                     /\ UNCHANGED <<plan, idx, log>>
                [] out = "error" ->
                     /\ Finished("error")
                     /\ UNCHANGED <<plan, idx, log>>
                [] OTHER ->
                     \* lines 1683-1697: writable_keys
                     /\ plan' = [writable |-> to_translate \cup {1} \cup fz \cup unt,
                                 fuzzy |-> fz, to_translate |-> to_translate]
                     \* lines 1575 and 1618: the title and the batch of segments
                     /\ log' = [log EXCEPT !.provider = IF to_translate # {} THEN 2 ELSE 0]
                     /\ idx' = 1
                     /\ pc' = "write"
                     /\ result' = result
    /\ UNCHANGED <<sourceRev, aiInfo, props, units, args, rep, status_meta, status>>

\* Every answer of the cache store and of the Translate extension.
Translate == TranslateOn(SUBSET Keys, SUBSET Keys)

\* The cache store is not configured (cfg.pg_dsn unset) and no unit is fuzzy.
TranslateNoCache == TranslateOn({{}}, {{}})

\* End of one iteration of the loop at line 1893.
Advance ==
    /\ idx' = idx + 1
    /\ pc' = IF idx = NumKeys THEN "finish" ELSE "write"
    /\ result' = result

\* The loop with unit_saved not set by the second attempt.
VerifyLoop_SecondNotCounted(e1, rb1, e2, rb2) ==
    IF ~e1 THEN [edits |-> 0, rbs |-> <<>>, end |-> "raise"]
    ELSE IF rb1 = "match" THEN [edits |-> 1, rbs |-> <<rb1>>, end |-> "saved"]
    ELSE IF ~e2 THEN [edits |-> 1, rbs |-> <<rb1>>, end |-> "raise"]
    ELSE [edits |-> 2, rbs |-> <<rb1, rb2>>, end |-> "unverified"]

\* The loop without the check of line 1996: a unit whose second read-back
\* mismatches counts as saved.
VerifyLoop_NoRaise(e1, rb1, e2, rb2) ==
    IF ~e1 THEN [edits |-> 0, rbs |-> <<>>, end |-> "raise"]
    ELSE IF rb1 = "match" THEN [edits |-> 1, rbs |-> <<rb1>>, end |-> "saved"]
    ELSE IF ~e2 THEN [edits |-> 1, rbs |-> <<rb1>>, end |-> "raise"]
    ELSE [edits |-> 2, rbs |-> <<rb1, rb2>>, end |-> "saved"]

\* The write/verify loop of lines 1939-1999 for text txt of key k:
\*   e1, e2    client.edit returned (an exception of edit leaves main)
\*   rb1, rb2  the read-back: "match", "mismatch" or "error" (read failed)
\* The result is [edits, rbs, end] with end "saved", "raise" (edit raised) or
\* "unverified" (RuntimeError, line 1997).
VerifyLoop(e1, rb1, e2, rb2) ==
    IF ~e1 THEN [edits |-> 0, rbs |-> <<>>, end |-> "raise"]
    ELSE IF rb1 = "match" THEN [edits |-> 1, rbs |-> <<rb1>>, end |-> "saved"]
    ELSE IF ~e2 THEN [edits |-> 1, rbs |-> <<rb1>>, end |-> "raise"]
    ELSE IF rb2 = "match" THEN [edits |-> 2, rbs |-> <<rb1, rb2>>, end |-> "saved"]
    ELSE [edits |-> 2, rbs |-> <<rb1, rb2>>, end |-> "unverified"]

\* The upsert placed inside the loop, after the edit and before the read-back.
cache_upsert_BeforeVerify(v, cacheOk) == v.edits > 0 /\ cacheOk

\* main lines 1996-2026: the cache upsert (upsert_segment and
\* upsert_translation in one transaction) is reached only past the check of
\* unit_saved; an exception of the upsert is swallowed and nothing is stored.
cache_upsert(v, cacheOk) == v.end = "saved" /\ cacheOk

Repeat(k, n) == [i \in 1..n |-> k]

\* One iteration of the loop of lines 1893-2028, for key idx.
\*   cur      the read of the stored unit at line 1927: "ok", "mwerror"
\*            (MediaWikiError, caught) or "exc" (another exception, not caught)
\*   cacheOk  the cache upsert of lines 2005-2026 succeeded
\* Cur, Ed, Rb, Ca are the answers the content store and the cache may give.
WriteSegmentOn(Cur, Ed, Rb, Ca) ==
    /\ pc = "write"
    /\ \E cur \in Cur, e1 \in Ed, e2 \in Ed, rb1 \in Rb, rb2 \in Rb, cacheOk \in Ca :
          LET k      == idx
              readCur == cur = "ok" /\ units[k].kind # "missing"
              same   == readCur /\ units[k] = Intended(k, sourceRev)
              toggle == same /\ k \in plan.fuzzy
              txt    == IF toggle THEN units[k] ELSE Intended(k, sourceRev)
              v      == VerifyLoop(e1, rb1, e2, rb2)
          IN  IF k \notin plan.writable \/ args.dry_run \/ (same /\ ~toggle)
              THEN /\ Advance
                   /\ UNCHANGED <<units, log>>
              ELSE IF cur = "exc"
              THEN /\ Finished("error")
                   /\ UNCHANGED <<units, log, idx>>
              ELSE /\ units' = IF v.edits > 0 THEN [units EXCEPT ![k] = txt] ELSE units
                   /\ log' = [log EXCEPT
                                !.writes = @ \o Repeat(k, v.edits),
                                !.attempts[k] = v.edits,
                                !.rb[k] = v.rbs,
                                !.saved = IF v.end = "saved" THEN @ \cup {k} ELSE @,
                                !.cache = IF cache_upsert(v, cacheOk) THEN @ \cup {k} ELSE @,
                                !.failKey = IF v.end = "unverified" THEN k ELSE @]
                   /\ IF v.end = "saved"
                      THEN Advance
                      ELSE Finished("error") /\ idx' = idx
    /\ UNCHANGED <<sourceRev, aiInfo, props, args, rep, status_meta, status, plan>>

\* Every answer of the content store and of the cache.
WriteSegment ==
    WriteSegmentOn({"ok", "mwerror", "exc"}, BOOLEAN, {"match", "mismatch", "error"}, BOOLEAN)

\* The content store answers every call and reads back what was written; the
\* cache store is not configured.
WriteSegmentNoFault == WriteSegmentOn({"ok"}, {TRUE}, {"match"}, {FALSE})

\* main lines 2030-2130: clear fuzzy flags, approve, record status machine.
\*   toggled  the units the clear-fuzzy pass edits: the keys the store reports
\*            fuzzy after the loop whose read and edit succeed
\*   approve  "approved", "no_revisions" (MediaWikiError at line 2102) or
\*            "error" (approve_revision raised)
\*   aiOk     an attempt of _write_ai_status_with_retry succeeded
\* Fz: the keys the store may report fuzzy after the loop; Ap: the outcomes
\* of the approval.
FinishOn(Fz, Ap) ==
    /\ pc = "finish"
    /\ \E toggled \in SUBSET {k \in Fz : units[k].kind # "missing"},
          approve \in Ap, aiOk \in BOOLEAN :
          LET cleared == IF args.dry_run THEN {} ELSE toggled
              order   == [i \in 1..NumKeys |-> i]
              edits   == SelectSeq(order, LAMBDA k : k \in cleared)
              newAi   == [status |-> "machine", source_rev |-> sourceRev,
                          outdated_source_rev |-> 0]
              wrote   == approve = "approved" /\ ~args.dry_run /\ aiOk
          IN  /\ log' = [log EXCEPT !.writes = @ \o edits,
                                    !.ai = IF wrote THEN Append(@, newAi) ELSE @]
              /\ aiInfo' = IF wrote THEN newAi ELSE aiInfo
              /\ Finished(CASE approve = "no_revisions" -> "skip_approve_no_revisions"
                            [] approve = "error" -> "error"
                            [] OTHER -> "ok")
    /\ UNCHANGED <<sourceRev, props, units, args, rep, status_meta, status, plan, idx>>

Finish == FinishOn(Keys, {"approved", "no_revisions", "error"})

\* No unit is fuzzy after the loop.
FinishNoFuzzy == FinishOn({}, {"approved", "no_revisions", "error"})

\* main has returned or raised; the next run starts from scratch (nothing is
\* held across runs in memory).
Return ==
    /\ pc = "done"
    /\ pc' = "idle"
    /\ args' = [dry_run |-> FALSE]
    /\ rep' = NoRep
    /\ status_meta' = EmptyDict
    /\ status' = "none"
    /\ plan' = NoPlan
    /\ idx' = 0
    /\ log' = NoLog
    /\ result' = NoResult
    /\ UNCHANGED <<sourceRev, aiInfo, props, units>>

\* ------------------------------------------------------------ job queue
\* runner.process_queue line 153: next_jobs(conn, limit=5).
BatchLimit == 5

\* job.lang in cfg.target_langs (runner.py line 157): the job with id 1 is for
\* a language that is no longer configured.
LangInTargets(j) == j # 1

NoRow == [status |-> "none", error |-> ""]
NoPend == [j \in JobIds |-> ""]

\* translate_page.main lines 1346, 1352, 2130: the result codes a run returns
\* to process_queue.
RunResults == {"ok", "locked_reviewed", "locked_outdated", "outdated"}
NoItem == [status |-> "", message |-> ""]
NoRet == [j \in JobIds |-> ""]
NoPRow == [j \in JobIds |-> [item |-> NoItem, page |-> FALSE]]

\* A lock reported as a plain success.
run_item_LockAsOk(result_status) ==
    IF result_status = "outdated"
    THEN [status |-> "warning", message |-> "status changed to outdated"]
    ELSE [status |-> "ok", message |-> ""]

\* runner.process_queue lines 201-211: status and message of the run item of
\* a run that returned.
run_item(result_status) ==
    IF result_status \in {"locked_reviewed", "locked_outdated"}
    THEN [status |-> "skip", message |-> result_status]
    ELSE IF result_status = "outdated"
    THEN [status |-> "warning", message |-> "status changed to outdated"]
    ELSE [status |-> "ok", message |-> ""]

\* run_report.log_item behind "if run_id is not None".
log_item(given, item) == IF given THEN item ELSE NoItem

QInit ==
    /\ jobs = [j \in JobIds |-> NoRow]
    /\ wpc = [w \in Workers |-> "idle"]
    /\ batch = [w \in Workers |-> <<>>]
    /\ pos = [w \in Workers |-> 0]
    /\ pend = [w \in Workers |-> NoPend]
    /\ exitJob = [w \in Workers |-> 0]
    /\ run_id = [w \in Workers |-> FALSE]
    /\ ret = [w \in Workers |-> NoRet]
    /\ prow = [w \in Workers |-> NoPRow]
    /\ run_items = [j \in JobIds |-> {}]
    /\ pages = [j \in JobIds |-> FALSE]

\* The ids of S in ascending order (ORDER BY priority DESC, id ASC, the
\* priorities being equal).
RECURSIVE SortedIds(_)
SortedIds(S) ==
    IF S = {} THEN <<>>
    ELSE LET m == CHOOSE x \in S : \A y \in S : x <= y
         IN  <<m>> \o SortedIds(S \ {m})

\* jobs.next_jobs: a plain SELECT of the queued rows, up to limit; it takes no
\* row lock, so rows another open transaction has fetched are returned too.
next_jobs(rows, limit) ==
    LET q == SortedIds({j \in JobIds : rows[j].status = "queued"})
    IN  SubSeq(q, 1, IF Len(q) < limit THEN Len(q) ELSE limit)

\* jobs.enqueue_job, called by ingest: a new queued row.
Enqueue ==
    /\ \E j \in JobIds :
          /\ jobs[j].status = "none"
          /\ jobs' = [jobs EXCEPT ![j] = [status |-> "queued", error |-> ""]]
    /\ UNCHANGED <<wpc, batch, pos, pend, exitJob, run_id, ret, prow, run_items, pages>>

\* runner.process_queue lines 143-153: the call, with a run id (runner.py
\* lines 428, 573) or without one (line 602); open the connection, fetch the
\* jobs.
FetchJobs ==
    /\ \E w \in Workers, given \in BOOLEAN :
          /\ wpc[w] = "idle"
          /\ batch' = [batch EXCEPT ![w] = next_jobs(jobs, BatchLimit)]
          /\ pos' = [pos EXCEPT ![w] = 1]
          /\ wpc' = [wpc EXCEPT ![w] = "loop"]
          /\ exitJob' = [exitJob EXCEPT ![w] = 0]
          /\ run_id' = [run_id EXCEPT ![w] = given]
    /\ UNCHANGED <<jobs, pend, ret, prow, run_items, pages>>

\* The UPDATE of mark_job_done / mark_job_error waits while another open
\* transaction holds an update of the same row.
RowFree(w, j) == \A o \in Workers \ {w} : pend[o][j] = ""

\* runner.process_queue lines 157-169: the language of the job is not a
\* target language; the job is marked done without a run.
SkipLang ==
    /\ \E w \in Workers :
          /\ wpc[w] = "loop"
          /\ pos[w] <= Len(batch[w])
          /\ ~LangInTargets(batch[w][pos[w]])
          /\ RowFree(w, batch[w][pos[w]])
          /\ pend' = [pend EXCEPT ![w][batch[w][pos[w]]] = "done"]
          /\ prow' = [prow EXCEPT ![w][batch[w][pos[w]]].item =
                        log_item(run_id[w], [status |-> "skip",
                                             message |-> "lang not in target_langs"])]
          /\ pos' = [pos EXCEPT ![w] = @ + 1]
    /\ UNCHANGED <<jobs, wpc, batch, exitJob, run_id, ret, run_items, pages>>

\* runner.process_queue lines 170-194: translate_page_main() is called.
StartJob ==
    /\ \E w \in Workers :
          /\ wpc[w] = "loop"
          /\ pos[w] <= Len(batch[w])
          /\ LangInTargets(batch[w][pos[w]])
          /\ wpc' = [wpc EXCEPT ![w] = "running"]
    /\ UNCHANGED <<jobs, batch, pos, pend, exitJob, run_id, ret, prow, run_items, pages>>

\* runner.process_queue lines 194-218: the run ends.
\*   a result     main returned it: upsert_page (line 199), the run item of
\*                the result (lines 200-212), mark_job_done (line 214)
\*   "Exception"  caught at line 215: mark_job_error and an error item
\*   "SystemExit" not an Exception: it leaves the for loop and the with block
\*                of line 152; db.get_conn closes the connection without
\*                commit, so the updates of the transaction are lost
EndJob ==
    /\ \E w \in Workers, out \in RunResults \cup {"Exception", "SystemExit"} :
          LET j == batch[w][pos[w]]
          IN  /\ wpc[w] = "running"
              /\ IF out = "SystemExit"
                 THEN /\ pend' = [pend EXCEPT ![w] = NoPend]
                      /\ prow' = [prow EXCEPT ![w] = NoPRow]
                      /\ wpc' = [wpc EXCEPT ![w] = "exited"]
                      /\ exitJob' = [exitJob EXCEPT ![w] = j]
                      /\ pos' = pos
                      /\ ret' = ret
                 ELSE /\ RowFree(w, j)
                      /\ pend' = [pend EXCEPT ![w][j] =
                                    IF out \in RunResults THEN "done" ELSE "error"]
                      /\ prow' = [prow EXCEPT ![w][j] =
                                    IF out \in RunResults
                                    THEN [item |-> log_item(run_id[w], run_item(out)),
                                          page |-> TRUE]
                                    ELSE [item |-> log_item(run_id[w], [status |-> "error",
                                                                        message |-> "exc"]),
                                          page |-> @.page]]
                      /\ ret' = [ret EXCEPT ![w][j] = IF out \in RunResults THEN out ELSE @]
                      /\ wpc' = [wpc EXCEPT ![w] = "loop"]
                      /\ pos' = [pos EXCEPT ![w] = @ + 1]
                      /\ exitJob' = exitJob
    /\ UNCHANGED <<jobs, batch, run_id, run_items, pages>>

\* End of the with block of line 152: db.get_conn commits.
Commit ==
    /\ \E w \in Workers :
          /\ wpc[w] = "loop"
          /\ pos[w] > Len(batch[w])
          /\ jobs' = [j \in JobIds |->
                        IF pend[w][j] = "" THEN jobs[j]
                        ELSE [status |-> pend[w][j],
                              error |-> IF pend[w][j] = "error" THEN "exc" ELSE jobs[j].error]]
          /\ run_items' = [j \in JobIds |-> run_items[j] \cup ({prow[w][j].item} \ {NoItem})]
          /\ pages' = [j \in JobIds |-> pages[j] \/ prow[w][j].page]
          /\ pend' = [pend EXCEPT ![w] = NoPend]
          /\ prow' = [prow EXCEPT ![w] = NoPRow]
          /\ wpc' = [wpc EXCEPT ![w] = "returned"]
    /\ UNCHANGED <<batch, pos, exitJob, run_id, ret>>

\* The caller calls process_queue again, or a new process is started.
Restart ==
    /\ \E w \in Workers :
          /\ wpc[w] \in {"returned", "exited"}
          /\ wpc' = [wpc EXCEPT ![w] = "idle"]
          /\ batch' = [batch EXCEPT ![w] = <<>>]
          /\ pos' = [pos EXCEPT ![w] = 0]
          /\ exitJob' = [exitJob EXCEPT ![w] = 0]
          /\ run_id' = [run_id EXCEPT ![w] = FALSE]
          /\ ret' = [ret EXCEPT ![w] = NoRet]
    /\ UNCHANGED <<jobs, pend, prow, run_items, pages>>

\* ------------------------------------------------------ checksum cache
\* The cache partition of translate_page.main for Docs, the documents that
\* share one cache store, in one target language.  Texts are the source
\* segment texts; "boxed" holds the configured strict template, "plain" does
\* not.  A translated text is told by the checksum of the source text it
\* translates and by whether it holds the strict template.
Docs == {"A", "B"}
Texts == {"plain", "boxed"}
NoText == "<absent>"
NoSum == <<>>
NoEntry == [sum |-> NoSum, strict |-> FALSE]
Entries == {[sum |-> <<"sha256", t>>, strict |-> b] : t \in Texts, b \in BOOLEAN}

VARIABLES
    csrc,           \* source segments: document -> key -> text or NoText
    segtab,         \* table segments: document -> key -> checksum or NoSum
    trtab,          \* table translations: document -> key -> entry or NoEntry
    cpc,            \* "idle", "partitioned"
    crun            \* what the run of the cache partition read and decided

cvars == <<csrc, segtab, trtab, cpc, crun>>

\* translate_page._checksum: sha256 of the segment text.
Checksum(t) == <<"sha256", t>>

\* translate_page._has_template for the configured strict template.
HasStrict(t) == t = "boxed"

\* Strictness dropped: every hit counts as compatible.
cache_compatible_with_source_Always(src, cached) == TRUE

\* translate_page._cache_compatible_with_source with one strict template.
cache_compatible_with_source(src, cached) == HasStrict(src) = cached.strict

\* db.fetch_segment_checksums: the recorded checksums of a document.
fetch_segment_checksums(tab, d) == tab[d]

\* Cache store, get-cached-translation(document, key, language, checksum).
fetch_cached_translation(tab, d, k, sum) ==
    IF tab[d][k] # NoEntry /\ tab[d][k].sum = sum THEN tab[d][k] ELSE NoEntry

\* Cache store, get-cached-translation-by-checksum(checksum, language): an
\* entry with the checksum, NoEntry when the store has none.  Entries with
\* one checksum differ in the strict template only; which of them the store
\* answers with is its choice, pref.
fetch_cached_translation_by_checksum(tab, sum, pref) ==
    LET found == {tab[d][k] : d \in Docs, k \in Keys} \cap {e \in Entries : e.sum = sum}
    IN  IF found = {} THEN NoEntry
        ELSE IF \E e \in found : e.strict = pref
        THEN CHOOSE e \in found : e.strict = pref
        ELSE CHOOSE e \in found : TRUE

Miss == [via |-> "", entry |-> NoEntry]

\* The lookup without the second level.
cache_lookup_ExactOnly(active, recorded, src, l1, l2) ==
    IF active /\ recorded = Checksum(src) /\ l1 # NoEntry
              /\ cache_compatible_with_source(src, l1)
    THEN [via |-> "db-key", entry |-> l1]
    ELSE Miss

\* main lines 1485-1521 for one segment with text src:
\*   active    caching is on for the segment (configured, not disabled, no
\*             exception of the store)
\*   recorded  existing_checksums.get(key)
\*   l1, l2    what the two fetches answer when they are made
cache_lookup(active, recorded, src, l1, l2) ==
    IF ~active THEN Miss
    ELSE IF recorded = Checksum(src) /\ l1 # NoEntry /\ cache_compatible_with_source(src, l1)
    THEN [via |-> "db-key", entry |-> l1]
    ELSE IF l2 # NoEntry /\ cache_compatible_with_source(src, l2)
    THEN [via |-> "db-checksum", entry |-> l2]
    ELSE Miss

\* main lines 1465-1472: the unit map changed since the checksums were
\* recorded.
disable_cache(existing, current) ==
    LET recorded == {k \in Keys : existing[k] # NoSum}
    IN  recorded # {} /\ recorded # current

CurrentKeys(d) == {k \in Keys : csrc[d][k] # NoText}

NoCRun == [doc |-> "", mode |-> "", existing |-> [k \in Keys |-> NoSum],
           disable_cache |-> FALSE, failed |-> {}, l2 |-> [k \in Keys |-> NoEntry],
           hit |-> [k \in Keys |-> Miss], to_translate |-> {}]

CInit ==
    /\ csrc = [d \in Docs |-> [k \in Keys |-> IF k = 1 THEN "plain" ELSE NoText]]
    /\ segtab = [d \in Docs |-> [k \in Keys |-> NoSum]]
    /\ trtab = [d \in Docs |-> [k \in Keys |-> NoEntry]]
    /\ cpc = "idle"
    /\ crun = NoCRun

\* An editor changes a segment of a source document, or adds or removes one
\* after the first (and marks the page for translation again).
CEditSource ==
    /\ cpc = "idle"
    /\ \E d \in Docs, k \in Keys, t \in Texts \cup {NoText} :
          /\ csrc[d][k] # t
          /\ (k = 1 => t # NoText)
          /\ csrc' = [csrc EXCEPT ![d][k] = t]
    /\ UNCHANGED <<segtab, trtab, cpc, crun>>

\* main lines 1458-1546 for document d: read the recorded checksums, decide
\* whether the cache is bypassed, look every segment up.
\*   mode    "off": cfg.pg_dsn is not set; "no_cache": it is set and
\*           --no-cache was given; "on": the cache is read; "sums_failed":
\*           the cache is read and fetch_segment_checksums raised (line 1463:
\*           existing_checksums = {})
\*   failed  the keys whose lookup raised (caught at line 1520: a miss)
\*   pref    the choice of the store among the entries of one checksum
\* to_translate (line 1541) is the batch that goes to the provider.
CPartition ==
    /\ cpc = "idle"
    /\ \E d \in Docs, mode \in {"off", "no_cache", "on", "sums_failed"},
          failed \in SUBSET Keys, pref \in BOOLEAN :
          LET current  == CurrentKeys(d)
              on       == mode \in {"on", "sums_failed"}
              existing == IF mode = "on" THEN fetch_segment_checksums(segtab, d)
                          ELSE [k \in Keys |-> NoSum]
              disable  == disable_cache(existing, current)
              asked(k) == k \in current /\ on /\ ~disable /\ k \notin failed
              l2       == [k \in Keys |->
                             IF asked(k)
                             THEN fetch_cached_translation_by_checksum(trtab, Checksum(csrc[d][k]), pref)
                             ELSE NoEntry]
              hit      == [k \in Keys |->
                             IF k \in current
                             THEN cache_lookup(asked(k), existing[k], csrc[d][k],
                                               fetch_cached_translation(trtab, d, k, Checksum(csrc[d][k])),
                                               l2[k])
                             ELSE Miss]
          IN  /\ current # {}
              /\ failed \subseteq current
              /\ (~on \/ disable) => (failed = {} /\ pref)
              /\ crun' = [doc |-> d, mode |-> mode, existing |-> existing,
                          disable_cache |-> disable, failed |-> failed, l2 |-> l2, hit |-> hit,
                          to_translate |-> {k \in current : hit[k].via = ""}]
              /\ cpc' = "partitioned"
    /\ UNCHANGED <<csrc, segtab, trtab>>

\* main lines 1554-2028 as far as the cache is concerned: the segments not
\* served from the cache are translated by the provider, the writable
\* segments are written, and the cache entry of every segment whose write was
\* verified is upserted; then the run is over and nothing of it is kept.
\*   keeps   the provider's output keeps the strict template of the source
\*           (machine translation may lose a template, it adds none)
\*   stored  the keys whose write was made and verified and whose upsert
\*           committed (lines 2005-2026); a key outside to_translate and other
\*           than the metadata key is written when the store reports it fuzzy
\*           or untranslated (lines 1683-1697), which it may do for any key
CComplete ==
    /\ cpc = "partitioned"
    /\ \E keeps \in BOOLEAN, stored \in SUBSET CurrentKeys(crun.doc) :
          LET d        == crun.doc
              current  == CurrentKeys(d)
              fuzzy    == stored
              metadata_key == CHOOSE k \in current : \A j \in current : k <= j
              writable == (IF crun.disable_cache THEN current ELSE crun.to_translate)
                          \cup {metadata_key} \cup fuzzy
              final    == [k \in Keys |->
                             IF crun.hit[k].via # "" THEN crun.hit[k].entry
                             ELSE [sum |-> Checksum(csrc[d][k]),
                                   strict |-> keeps /\ HasStrict(csrc[d][k])]]
          IN  /\ stored \subseteq writable
              /\ (crun.mode = "off" => stored = {})
              /\ segtab' = [segtab EXCEPT ![d] =
                              [k \in Keys |-> IF k \in stored THEN Checksum(csrc[d][k]) ELSE @[k]]]
              /\ trtab' = [trtab EXCEPT ![d] =
                              [k \in Keys |-> IF k \in stored
                                              THEN [sum |-> Checksum(csrc[d][k]), strict |-> final[k].strict]
                                              ELSE @[k]]]
    /\ cpc' = "idle"
    /\ crun' = NoCRun
    /\ UNCHANGED csrc

\* ------------------------------------------------------ link protection
\* The link tokens of one segment that goes to the provider (main lines
\* 1595-1624 and 1706-1745).  A segment is told by Links, the internal links
\* of its text; a translated text by the tokens it still holds.
MaxLinks == 3
Links == 1 .. MaxLinks

VARIABLES
    lseg,           \* the internal links of the source segment
    lpc,            \* "idle", "translated", "restored", "written"
    lrun            \* the tokens asked for, kept and restored in the run

lvars == <<lseg, lpc, lrun>>

NoLRun == [required |-> {}, first |-> {}, fallback |-> FALSE, second |-> {}, restored |-> {}]

LInit ==
    /\ lseg = {}
    /\ lpc = "idle"
    /\ lrun = NoLRun

\* translate_page._tokenize_links: one ZZZLINKnZZZ token for every internal
\* link of the text, every one of them required.
tokenize_links(seg) == seg

\* translate_page._missing_required_tokens.
missing_required_tokens(text, required) == {t \in required : t \notin text}

\* main lines 1595-1624: the links of the segment are tokenized and the
\* token-bearing text goes to the provider in the batch; the provider's
\* answer holds the tokens in first.
LTranslate ==
    /\ lpc = "idle"
    /\ \E seg \in SUBSET Links, first \in SUBSET Links :
          /\ first \subseteq tokenize_links(seg)
          /\ lseg' = seg
          /\ lrun' = [NoLRun EXCEPT !.required = tokenize_links(seg), !.first = first]
    /\ lpc' = "translated"

\* main lines 1706-1745 for the segment: with a required token missing the
\* segment alone is translated again from protect_wikitext(seg.text,
\* protect_links=True), whose answer holds the placeholders in second; the
\* text is restored from what the answer in use holds, whatever that is.
\* (The raise of line 1719 needs engine to be None, and engine is set at
\* line 1558 whenever a segment goes to the provider.)
LRestore ==
    /\ lpc = "translated"
    /\ LET missing == missing_required_tokens(lrun.first, lrun.required)
       IN  IF missing # {}
           THEN \E second \in SUBSET lseg :
                   lrun' = [lrun EXCEPT !.fallback = TRUE, !.second = second,
                                        !.restored = second]
           ELSE lrun' = [lrun EXCEPT !.restored = lrun.first]
    /\ lpc' = "restored"
    /\ UNCHANGED lseg

\* main lines 1876-1937: placeholders left unresolved are stripped and the
\* segment, which is writable because it went to the provider, is written.
LWrite ==
    /\ lpc = "restored"
    /\ lpc' = "written"
    /\ UNCHANGED <<lseg, lrun>>

\* The next run.
LReturn ==
    /\ lpc = "written"
    /\ lpc' = "idle"
    /\ lrun' = NoLRun
    /\ UNCHANGED lseg

\* ------------------------------------------------------- placeholders
\* placeholders.protect_wikitext and restore_wikitext.  A text is a sequence
\* of lexical items separated by blanks:
\*   "w"          a word
\*   "<ref>r</ref>", "<!--c-->", "__NOTOC__", "[[File:a.jpg]]"
\*                a reference, a comment, a magic word, a file link
\*   "{{", "}}", "[[", "]]"   the delimiters of templates and links
\* and, in a protected text, the placeholder keys __PHn__.
MaxLen == 3
Items == {"w", "<ref>r</ref>", "<!--c-->", "__NOTOC__", "[[File:a.jpg]]",
          "{{", "}}", "[[", "]]"}
PHNames == <<"__PH0__", "__PH1__", "__PH2__", "__PH3__", "__PH4__", "__PH5__",
             "__PH6__", "__PH7__", "__PH8__", "__PH9__", "__PH10__", "__PH11__">>
PHKeys == {PHNames[i] : i \in DOMAIN PHNames}
SourceTexts == UNION {[1 .. n -> Items] : n \in 0 .. MaxLen}

VARIABLES
    ptext,          \* the source text S
    ppc,            \* "idle", "chosen", "protected", "restored"
    pres            \* [text, placeholders] of protect_wikitext, and the restored text

pvars == <<ptext, ppc, pres>>

NoPRes == [text |-> <<>>, placeholders |-> <<>>, restored |-> <<>>]

PInit ==
    /\ ptext = <<>>
    /\ ppc = "idle"
    /\ pres = NoPRes

\* key = f"__PH{len(placeholders)}__"; the dict keeps insertion order, so
\* the placeholders are the sequence of their values.
NextKey(placeholders) == PHNames[Len(placeholders) + 1]

\* RE.sub(_sub, text) for a pattern that matches the items of Match, each
\* match on its own: every match becomes a new key.
RECURSIVE re_sub(_, _, _)
re_sub(Match, text, r) ==
    IF text = <<>> THEN r
    ELSE IF Head(text) \in Match
    THEN re_sub(Match, Tail(text),
                [text |-> Append(r.text, NextKey(r.placeholders)),
                 placeholders |-> Append(r.placeholders, <<Head(text)>>)])
    ELSE re_sub(Match, Tail(text), [r EXCEPT !.text = Append(@, Head(text))])

\* MAGIC_WORD_RE = __([A-Z0-9_]+)__ matches a magic word and every
\* placeholder key the earlier passes left in the text.
MagicWords == {"__NOTOC__"} \cup PHKeys

\* placeholders._extract_balanced: the spans, as <<first, last>> item
\* indexes, that open at depth 0 and close back to depth 0.
RECURSIVE extract_balanced(_, _, _, _, _, _, _)
extract_balanced(text, open_tok, close_tok, i, depth, start, spans) ==
    IF i > Len(text) THEN spans
    ELSE IF text[i] = open_tok
    THEN extract_balanced(text, open_tok, close_tok, i + 1, depth + 1,
                          IF depth = 0 THEN i ELSE start, spans)
    ELSE IF text[i] = close_tok /\ depth > 0
    THEN IF depth = 1 /\ start # 0
         THEN extract_balanced(text, open_tok, close_tok, i + 1, 0, 0,
                               Append(spans, <<start, i>>))
         ELSE extract_balanced(text, open_tok, close_tok, i + 1, depth - 1, start, spans)
    ELSE extract_balanced(text, open_tok, close_tok, i + 1, depth, start, spans)

\* placeholders._replace_spans.
RECURSIVE replace_spans(_, _, _, _)
replace_spans(text, spans, last, r) ==
    IF spans = <<>>
    THEN [r EXCEPT !.text = @ \o SubSeq(text, last + 1, Len(text))]
    ELSE LET sp == Head(spans)
         IN  replace_spans(text, Tail(spans), sp[2],
                 [text |-> (r.text \o SubSeq(text, last + 1, sp[1] - 1))
                              \o <<NextKey(r.placeholders)>>,
                  placeholders |-> Append(r.placeholders, SubSeq(text, sp[1], sp[2]))])

\* One balanced pass of protect_wikitext (lines 97-98, 101-102).
protect_balanced(r, open_tok, close_tok) ==
    replace_spans(r.text, extract_balanced(r.text, open_tok, close_tok, 1, 0, 0, <<>>), 0,
                  [text |-> <<>>, placeholders |-> r.placeholders])

\* placeholders.protect_wikitext: references, comments, magic words, file
\* links, templates, links when protect_links; a text of Items has no
\* <references> and no URL, so those passes change nothing.
protect_wikitext(text, protect_links) ==
    LET r0 == [text |-> text, placeholders |-> <<>>]
        r1 == re_sub({"<ref>r</ref>"}, r0.text, [r0 EXCEPT !.text = <<>>])
        r2 == re_sub({"<!--c-->"}, r1.text, [r1 EXCEPT !.text = <<>>])
        r3 == re_sub(MagicWords, r2.text, [r2 EXCEPT !.text = <<>>])
        r4 == re_sub({"[[File:a.jpg]]"}, r3.text, [r3 EXCEPT !.text = <<>>])
        r5 == protect_balanced(r4, "{{", "}}")
    IN  IF protect_links THEN protect_balanced(r5, "[[", "]]") ELSE r5

\* str.replace(key, value) on a sequence of items.
RECURSIVE str_replace(_, _, _)
str_replace(text, key, value) ==
    IF text = <<>> THEN <<>>
    ELSE (IF Head(text) = key THEN value ELSE <<Head(text)>>)
             \o str_replace(Tail(text), key, value)

\* placeholders.restore_wikitext: one replace per key, in insertion order,
\* from key number n on.
RECURSIVE restore_wikitext(_, _, _)
restore_wikitext(text, placeholders, n) ==
    IF n > Len(placeholders) THEN text
    ELSE restore_wikitext(str_replace(text, PHNames[n], placeholders[n]), placeholders, n + 1)

\* A source text is given.
PChoose ==
    /\ ppc = "idle"
    /\ \E t \in SourceTexts : ptext' = t
    /\ ppc' = "chosen"
    /\ pres' = NoPRes

PProtect ==
    /\ ppc = "chosen"
    /\ \E protect_links \in BOOLEAN :
          LET r == protect_wikitext(ptext, protect_links)
          IN  pres' = [text |-> r.text, placeholders |-> r.placeholders, restored |-> <<>>]
    /\ ppc' = "protected"
    /\ UNCHANGED ptext

\* No translation is applied: the protected text is restored as it is.
PRestore ==
    /\ ppc = "protected"
    /\ pres' = [pres EXCEPT !.restored = restore_wikitext(pres.text, pres.placeholders, 1)]
    /\ ppc' = "restored"
    /\ UNCHANGED ptext

PReset ==
    /\ ppc = "restored"
    /\ ppc' = "idle"
    /\ ptext' = <<>>
    /\ pres' = NoPRes

\* ------------------------------------------------ link language suffix
\* The page part of an internal link target is the sequence of its parts
\* between slashes: <<"Page", "de">> is Page/de.  "de" and "fr" are known
\* languages, "sub" is a subpage name.
MaxParts == 3
PageNames == {"Page", "Other"}
KnownLangs == {"de", "fr"}
Parts == KnownLangs \cup {"sub"}
Pages == {<<b>> \o t : b \in PageNames, t \in UNION {[1 .. n -> Parts] : n \in 0 .. MaxParts - 1}}
NoPage == <<>>

VARIABLES
    rpage,          \* the page of the link the function is applied to
    rlang,          \* the target language L
    rsource,        \* source_targets of the run
    rpc,            \* "idle", "chosen", "rewritten"
    rout,           \* [fn, page, display]: the function applied and what it wrote
    rdisplay,       \* the display text of the link, NoDisplay for [[target]]
    rlocal          \* the base pages that have a localized display title

rvars == <<rpage, rlang, rsource, rpc, rout, rdisplay, rlocal>>

\* A display text is a page name, the localized title of a page or some
\* other label; a link without "|" has none.
NoDisplay == <<>>
Localized == <<"Valores Fundamentais">>
Displays == Pages \cup {<<"label">>, Localized}
NoROut == [fn |-> "", page |-> NoPage, display |-> NoDisplay]

RInit ==
    /\ rpage = NoPage
    /\ rlang = "fr"
    /\ rsource = {}
    /\ rpc = "idle"
    /\ rout = NoROut
    /\ rdisplay = NoDisplay
    /\ rlocal = {}

Last(page) == page[Len(page)]
Front(page) == SubSeq(page, 1, Len(page) - 1)

\* page.endswith(f"/{lang}")
EndsWithLang(page, lang) == Len(page) > 1 /\ Last(page) = lang

\* translate_page._strip_known_lang_suffix.
strip_known_lang_suffix(page, known_langs) ==
    IF Len(page) = 1 THEN page
    ELSE IF Last(page) \in known_langs THEN Front(page)
    ELSE page

\* translate_page._tokenize_links, the page of new_target (lines 366-372).
tokenize_links_target(page, lang, known_langs) ==
    IF EndsWithLang(page, lang) THEN page
    ELSE Append(strip_known_lang_suffix(page, known_langs), lang)

\* translate_page._restore_internal_link_targets, new_page for a source link
\* (lines 781-786); known_langs is empty when the caller passes none.
restore_internal_link_targets(src_page, lang, known_langs) ==
    IF EndsWithLang(src_page, lang) THEN src_page
    ELSE Append(strip_known_lang_suffix(src_page, known_langs), lang)

\* translate_page._rewrite_internal_links_to_lang_with_source, the page of
\* new_target (lines 867-884); known_langs.add(lang) at line 866.
rewrite_internal_links_to_lang_with_source(page, lang, source_targets, known_langs) ==
    LET base_page == strip_known_lang_suffix(page, known_langs \cup {lang})
    IN  IF EndsWithLang(page, lang) \/ base_page \notin source_targets
        THEN page
        ELSE Append(page, lang)

\* The explicit display is never upgraded to the localized title.
rewrite_display_NoUpgrade(page, display, lang, localized_targets, new_page, known_langs) ==
    LET trim(v) == strip_known_lang_suffix(v, known_langs \cup {lang})
        localized == trim(page) \in localized_targets
    IN  IF display = NoDisplay
        THEN IF localized THEN Localized ELSE NoDisplay
        ELSE IF display = page \/ display = new_page THEN trim(display) ELSE display

\* translate_page._rewrite_internal_links_to_lang_with_source, the display
\* of the link it returns (lines 870-898) for a target without anchor;
\* localized_targets are the keys of implicit_display_by_target.
rewrite_display(page, display, lang, localized_targets, new_page, known_langs) ==
    LET trim(v) == strip_known_lang_suffix(v, known_langs \cup {lang})
        base_page == trim(page)
        localized == base_page \in localized_targets
    IN  IF display = NoDisplay
        THEN IF localized THEN Localized ELSE NoDisplay
        ELSE LET d == IF localized /\ (display = page \/ display = base_page)
                      THEN Localized ELSE display
             IN  IF d = page \/ d = new_page THEN trim(d) ELSE d

\* A link with page pg is in a text that is rewritten for language lang;
\* source_targets holds base pages of links of the source (lines 1594-1603).
RChoose ==
    /\ rpc = "idle"
    /\ \E pg \in Pages, lang \in KnownLangs, st \in SUBSET {<<b>> : b \in PageNames},
          dp \in Displays \cup {NoDisplay}, loc \in SUBSET {<<b>> : b \in PageNames} :
          /\ rpage' = pg
          /\ rlang' = lang
          /\ rsource' = st
          /\ rdisplay' = dp
          /\ rlocal' = loc
    /\ rpc' = "chosen"
    /\ UNCHANGED rout

\* One of the three rewriting functions is applied to the link: main lines
\* 1602 (tokenize), 1744 (restore, no known_langs passed), 1912 (restore with
\* known_langs), 1764 and 1905 (rewrite).
RRewrite ==
    /\ rpc = "chosen"
    /\ \E fn \in {"tokenize", "restore", "restore_known", "rewrite"} :
          LET new_page == CASE fn = "tokenize" ->
                                   tokenize_links_target(rpage, rlang, KnownLangs)
                              [] fn = "restore" ->
                                   restore_internal_link_targets(rpage, rlang, {})
                              [] fn = "restore_known" ->
                                   restore_internal_link_targets(rpage, rlang, KnownLangs)
                              [] fn = "rewrite" ->
                                   rewrite_internal_links_to_lang_with_source(
                                       rpage, rlang, rsource, KnownLangs)
          IN  rout' = [fn |-> fn, page |-> new_page,
                       display |-> IF fn = "rewrite"
                                   THEN rewrite_display(rpage, rdisplay, rlang, rlocal,
                                                        new_page, KnownLangs)
                                   ELSE rdisplay]
    /\ rpc' = "rewritten"
    /\ UNCHANGED <<rpage, rlang, rsource, rdisplay, rlocal>>

\* The next link.
RNextLink ==
    /\ rpc = "rewritten"
    /\ rpc' = "idle"
    /\ rpage' = NoPage
    /\ rout' = NoROut
    /\ rdisplay' = NoDisplay
    /\ UNCHANGED <<rlang, rsource, rlocal>>

\* ------------------------------------------------- metadata composition
\* The text of a translated segment as main composes it (lines 1817-1874).
\* A text is a sequence of lines and a line a sequence of items set side by
\* side; the empty line is <<>>.
\*   "TS"     a {{Translation_status|...}} marker
\*   "DT"     a {{DISPLAYTITLE:...}} directive
\*   "NOTOC"  __NOTOC__
\*   "FILE"   a [[File:...]] reference
\*   "w"      body text
MaxLines == 3
MetaItems == {"TS", "DT", "NOTOC", "FILE"}
MetaLines == {<<>>, <<"w">>, <<"TS">>, <<"DT">>, <<"NOTOC">>, <<"FILE">>,
              <<"NOTOC", "FILE">>, <<"w", "TS">>}
MetaTexts == UNION {[1 .. n -> MetaLines] : n \in 1 .. MaxLines}

VARIABLES
    mtext,          \* the translated text of the metadata segment before composition
    mother,         \* the text of another segment of the run
    mrun,           \* [cached, writable, rebuild_only, unit_title, locked]
    mpc,            \* "idle", "chosen", "composed"
    mout            \* [meta, other]: the two texts after composition

mvars == <<mtext, mother, mrun, mpc, mout>>

NoMRun == [cached |-> FALSE, writable |-> FALSE, rebuild_only |-> FALSE, unit_title |-> FALSE, locked |-> FALSE]

MInit ==
    /\ mtext = <<>>
    /\ mother = <<>>
    /\ mrun = NoMRun
    /\ mpc = "idle"
    /\ mout = [meta |-> <<>>, other |-> <<>>]

\* str.strip() / lstrip("\n") on lines: blank lines at the ends go.
RECURSIVE lstrip(_)
lstrip(text) ==
    IF text # <<>> /\ Head(text) = <<>> THEN lstrip(Tail(text)) ELSE text

RECURSIVE rstrip(_)
rstrip(text) ==
    IF text # <<>> /\ text[Len(text)] = <<>> THEN rstrip(SubSeq(text, 1, Len(text) - 1))
    ELSE text

strip(text) == lstrip(rstrip(text))

\* The items of a line without those of Drop.
RECURSIVE without(_, _)
without(line, Drop) ==
    IF line = <<>> THEN <<>>
    ELSE (IF Head(line) \in Drop THEN <<>> ELSE <<Head(line)>>) \o without(Tail(line), Drop)

\* DISPLAYTITLE_RE.sub("", text).strip() (line 1833).
strip_displaytitle(text) == strip([i \in 1 .. Len(text) |-> without(text[i], {"DT"})])

\* The index of the first non-blank line after line i, 0 when there is none.
NextLine(text, i) ==
    IF \E j \in i + 1 .. Len(text) : text[j] # <<>>
    THEN CHOOSE j \in i + 1 .. Len(text) :
             text[j] # <<>> /\ \A h \in i + 1 .. j - 1 : text[h] = <<>>
    ELSE 0

\* Lines i to j made one line, the blank lines between them dropped.
RECURSIVE Concat(_, _, _)
Concat(text, i, j) == IF i > j THEN <<>> ELSE text[i] \o Concat(text, i + 1, j)

MergeLines(text, i, j) ==
    SubSeq(text, 1, i - 1) \o <<Concat(text, i, j)>> \o SubSeq(text, j + 1, Len(text))

\* TRANSLATION_STATUS_TEMPLATE_RE.sub("", text): the pattern ends in \s*, so
\* a marker at the end of a line takes the line break and the blank lines
\* after it along.
RECURSIVE remove_status(_, _)
remove_status(text, i) ==
    IF i > Len(text) THEN text
    ELSE IF text[i] # <<>> /\ text[i][Len(text[i])] = "TS"
    THEN LET j == NextLine(text, i)
             cut == [text EXCEPT ![i] = SubSeq(@, 1, Len(@) - 1)]
         IN  IF j = 0 THEN remove_status(SubSeq(cut, 1, i), i + 1)
             ELSE remove_status(MergeLines(cut, i, j), i)
    ELSE remove_status([text EXCEPT ![i] = without(@, {"TS"})], i + 1)

\* re.sub(a \s*\n+\s* b, a b, count=1): the first line that ends in a and
\* whose next non-blank line starts with b is joined with that line.
join_first(text, a, b) ==
    LET fits(i) == /\ text[i] # <<>>
                   /\ text[i][Len(text[i])] = a
                   /\ NextLine(text, i) # 0
                   /\ (b # "" => text[NextLine(text, i)][1] = b)
    IN  IF \E i \in 1 .. Len(text) : fits(i)
        THEN LET i == CHOOSE x \in 1 .. Len(text) : fits(x) /\ \A y \in 1 .. x - 1 : ~fits(y)
             IN  MergeLines(text, i, NextLine(text, i))
        ELSE text

\* translate_page._normalize_leading_directives: a display title at the end
\* of a line, then a line of its own with __NOTOC__ or at least one blank
\* line, then a line that starts with a file reference, become one line.
normalize_leading_directives(text) ==
    LET fits(i) ==
            /\ text[i] # <<>>
            /\ text[i][Len(text[i])] = "DT"
            /\ LET j == NextLine(text, i)
               IN  /\ j # 0
                   /\ \/ /\ text[j] = <<"NOTOC">>
                         /\ NextLine(text, j) # 0
                         /\ text[NextLine(text, j)][1] = "FILE"
                      \/ /\ text[j][1] = "FILE"
                         /\ j > i + 1
        last(i) == LET j == NextLine(text, i)
                   IN  IF text[j][1] = "FILE" THEN j ELSE NextLine(text, j)
    IN  IF \E i \in 1 .. Len(text) : fits(i)
        THEN LET i == CHOOSE x \in 1 .. Len(text) : fits(x) /\ \A y \in 1 .. x - 1 : ~fits(y)
             IN  MergeLines(text, i, last(i))
        ELSE text

\* The line is status marker, display title, __NOTOC__, file reference in
\* this order, the display title present, the others optional.
IsPreambleLine(line) ==
    line \in {<<"DT">>, <<"TS", "DT">>, <<"DT", "NOTOC">>, <<"TS", "DT", "NOTOC">>,
              <<"DT", "FILE">>, <<"TS", "DT", "FILE">>, <<"DT", "NOTOC", "FILE">>,
              <<"TS", "DT", "NOTOC", "FILE">>}

\* translate_page._normalize_leading_status_directives.
normalize_leading_status_directives(text) ==
    LET t1 == join_first(text, "TS", "DT")
        t2 == join_first(t1, "DT", "NOTOC")
        t3 == join_first(t2, "NOTOC", "FILE")
        t4 == join_first(t3, "NOTOC", "")
        r  == lstrip(SubSeq(t4, 2, Len(t4)))
    IN  IF Len(t4) > 2 /\ IsPreambleLine(t4[1]) /\ t4[2] = <<>>
        THEN <<t4[1]>> \o (IF r = <<>> THEN <<<<>>>> ELSE r)
        ELSE t4

\* translate_page._collapse_blank_lines: at most one blank line in a row,
\* none at the start.
RECURSIVE collapse(_)
collapse(text) ==
    IF Len(text) < 2 THEN text
    ELSE IF text[1] = <<>> /\ text[2] = <<>> THEN collapse(Tail(text))
    ELSE <<Head(text)>> \o collapse(Tail(text))

collapse_blank_lines(text) == lstrip(collapse(text))

\* LEADING_META_LINE_RE.fullmatch(line): the line is made of templates, magic
\* words, file references and comments only.
IsMetaLine(line) == line # <<>> /\ \A i \in 1 .. Len(line) : line[i] \in MetaItems

\* translate_page._compact_leading_metadata_preamble: the leading lines made
\* of directives are set side by side in the order they have, and the body
\* follows the last of them on the same line.
compact_leading_metadata_preamble(text) ==
    LET body == {i \in 1 .. Len(text) : text[i] # <<>> /\ ~IsMetaLine(text[i])}
        stop == IF body = {} THEN Len(text) + 1
                ELSE CHOOSE i \in body : \A j \in body : i <= j
        preamble == Concat(text, 1, stop - 1)
        rest == lstrip(SubSeq(text, stop, Len(text)))
    IN  IF preamble = <<>> THEN lstrip(text)
        ELSE IF rest = <<>> THEN <<preamble>>
        ELSE <<preamble \o rest[1]>> \o Tail(rest)

\* translate_page._upsert_status_template for the marker built by
\* _build_status_template (_normalize_leading_div changes no text without a
\* leading div).
upsert_status_template_text(text) ==
    LET base == lstrip(remove_status(text, 1))
        out  == IF base # <<>> /\ base[1] # <<>> /\ base[1][1] = "DT"
                THEN strip(<<<<"TS">> \o base[1]>> \o Tail(base))
                ELSE strip(<<<<"TS">>>> \o base)
    IN  compact_leading_metadata_preamble(normalize_leading_status_directives(out))

\* main lines 1817-1874 for the metadata segment:
\*   strip_titles  the display titles of the translated text are removed
\*   title         displaytitle_value is set: a directive is prepended
compose_metadata(text, strip_titles, title) ==
    LET t0 == IF strip_titles THEN strip_displaytitle(text) ELSE text
        t1 == IF title THEN <<<<"DT">>>> \o t0 ELSE t0
        t2 == strip(t1)
        t3 == normalize_leading_directives(t2)
        t4 == normalize_leading_status_directives(t3)
        t5 == collapse_blank_lines(t4)
    IN  upsert_status_template_text(strip(t5))

\* main line 1833 for a segment other than the metadata segment.
compose_other(text, strip_titles) == IF strip_titles THEN strip_displaytitle(text) ELSE text

\* main line 1831: the display titles of the translated texts are removed.
strip_dt(run) == run.unit_title \/ ~run.rebuild_only

\* main lines 1834-1840: displaytitle_value is set (title_translation, the
\* translated title of the page, is not empty).
has_title(run) == run.locked \/ run.unit_title \/ ~run.rebuild_only

\* The text of a segment that is not the metadata segment as it reaches the
\* composition: a translation, which holds no status marker, or, served from
\* the cache (lines 1486-1519), the text a run stored for a segment with the
\* same source text (lines 2005-2024), that of a metadata segment included.
OtherTexts(cached) ==
    {<<l>> : l \in {x \in MetaLines : \A k \in 1 .. Len(x) : x[k] # "TS"}}
    \cup (IF cached THEN {compose_metadata(<<l>>, TRUE, TRUE) : l \in MetaLines} ELSE {})

\* The translated texts of the metadata segment and of another segment
\* reach the composition.
\*   cached        the other segment was served from the cache
\*   writable      the other segment is in writable_keys (line 1897)
\*   rebuild_only  args.rebuild_only
\*   unit_title    the unit of the page display title holds a translation
\*   locked        title_locked_by_termbase
MChoose ==
    /\ mpc = "idle"
    /\ \E t \in MetaTexts, cached \in BOOLEAN, writable \in BOOLEAN,
          rebuild_only \in BOOLEAN, unit_title \in BOOLEAN, locked \in BOOLEAN :
          \E o \in OtherTexts(cached) :
              /\ mtext' = t
              /\ mother' = o
              /\ mrun' = [cached |-> cached, writable |-> writable,
                           rebuild_only |-> rebuild_only,
                           unit_title |-> unit_title, locked |-> locked]
    /\ mpc' = "chosen"
    /\ UNCHANGED mout

MCompose ==
    /\ mpc = "chosen"
    /\ mout' = [meta |-> compose_metadata(mtext, strip_dt(mrun), has_title(mrun)),
                 other |-> compose_other(mother, strip_dt(mrun))]
    /\ mpc' = "composed"
    /\ UNCHANGED <<mtext, mother, mrun>>

\* The next run.
MReturn ==
    /\ mpc = "composed"
    /\ mpc' = "idle"
    /\ mtext' = <<>>
    /\ mother' = <<>>
    /\ mrun' = NoMRun
    /\ mout' = [meta |-> <<>>, other |-> <<>>]

\* ------------------------------------------------------- status marker
\* The text of a status marker is a sequence of pieces: the braces "{{" and
\* "}}", "|", "=", the template name, the names of the fields and the
\* characters of their values.
StatusKeys == <<"status", "source_rev_at_translation", "reviewed_at", "reviewed_by",
                "outdated_source_rev">>
NoValue == <<"None">>
\* The values the callers pass: a status word, a revision id, a user name, a
\* time stamp; "=" may stand in them.
StatusValues == {<<>>, <<"a">>, <<"1", "2">>, <<"a", "=", "b">>}

VARIABLES
    sfields,        \* the arguments of _build_status_template, by field
    stext,          \* the text that holds the marker
    sparsed,        \* the result of _parse_status_template, by field
    spc             \* "idle", "chosen", "built", "parsed"

svars == <<sfields, stext, sparsed, spc>>

NoFields == [k \in 1 .. 5 |-> NoValue]

SInit ==
    /\ sfields = NoFields
    /\ stext = <<>>
    /\ sparsed = NoFields
    /\ spc = "idle"

\* if value: neither None nor the empty string.
Truthy(v) == v # NoValue /\ v # <<>>

\* The marker without its last field.
build_status_text_NoOutdated(fields) ==
    LET part(k) == IF k = 1 \/ (k < 5 /\ Truthy(fields[k]))
                   THEN <<"|", StatusKeys[k], "=">> \o (IF fields[k] = NoValue THEN <<>> ELSE fields[k])
                   ELSE <<>>
    IN  <<"{{", "Translation_status">> \o part(1) \o part(2) \o part(3) \o part(4) \o part(5)
        \o <<"}}">>

\* translate_page._build_status_template: status always, the other fields
\* when they have a value, in the order of StatusKeys.
build_status_text(fields) ==
    LET part(k) == IF k = 1 \/ Truthy(fields[k])
                   THEN <<"|", StatusKeys[k], "=">> \o (IF fields[k] = NoValue THEN <<>> ELSE fields[k])
                   ELSE <<>>
    IN  <<"{{", "Translation_status">> \o part(1) \o part(2) \o part(3) \o part(4) \o part(5)
        \o <<"}}">>

\* str.split(sep): the pieces between the separators.
RECURSIVE split(_, _)
split(seq, sep) ==
    IF \E i \in 1 .. Len(seq) : seq[i] = sep
    THEN LET i == CHOOSE x \in 1 .. Len(seq) : seq[x] = sep /\ \A y \in 1 .. x - 1 : seq[y] # sep
         IN  <<SubSeq(seq, 1, i - 1)>> \o split(SubSeq(seq, i + 1, Len(seq)), sep)
    ELSE <<seq>>

\* TRANSLATION_STATUS_TEMPLATE_RE.search(text): the first marker of the text,
\* <<>> when there is none.
search_status(text) ==
    IF \E i \in 1 .. Len(text) - 1 : text[i] = "{{" /\ text[i + 1] = "Translation_status"
    THEN LET i == CHOOSE x \in 1 .. Len(text) - 1 :
                      /\ text[x] = "{{" /\ text[x + 1] = "Translation_status"
                      /\ \A y \in 1 .. x - 1 : ~(text[y] = "{{" /\ text[y + 1] = "Translation_status")
             j == CHOOSE x \in i + 1 .. Len(text) :
                      text[x] = "}}" /\ \A y \in i + 1 .. x - 1 : text[y] # "}}"
         IN  SubSeq(text, i, j)
    ELSE <<>>

\* translate_page._parse_status_template: the pieces after the first "|",
\* each cut at its first "="; a piece without "=" is skipped and a later
\* field of the same name replaces an earlier one.
RECURSIVE parse_parts(_, _)
parse_parts(parts, params) ==
    IF parts = <<>> THEN params
    ELSE LET part == Head(parts)
             kv   == split(part, "=")
             eq   == CHOOSE x \in 1 .. Len(part) : part[x] = "=" /\ \A y \in 1 .. x - 1 : part[y] # "="
             key  == kv[1]
         IN  IF Len(kv) < 2 THEN parse_parts(Tail(parts), params)
             ELSE IF \E k \in 1 .. 5 : key = <<StatusKeys[k]>>
             THEN LET k == CHOOSE x \in 1 .. 5 : key = <<StatusKeys[x]>>
                  IN  parse_parts(Tail(parts),
                                  [params EXCEPT ![k] = SubSeq(part, eq + 1, Len(part))])
             ELSE parse_parts(Tail(parts), params)

parse_status_text(text) ==
    LET found == search_status(text)
    IN  IF found = <<>> THEN NoFields
        ELSE LET raw == SubSeq(found, 2, Len(found) - 1)
             IN  parse_parts(Tail(split(raw, "|")), NoFields)

\* A caller chooses the fields of the marker.
SChoose ==
    /\ spc = "idle"
    /\ \E f \in [1 .. 5 -> StatusValues \cup {NoValue}] :
          /\ f[1] # NoValue
          /\ sfields' = f
    /\ spc' = "chosen"
    /\ UNCHANGED <<stext, sparsed>>

\* _upsert_status_template puts the marker at the head of the text
\* (lines 605-615).
SBuild ==
    /\ spc = "chosen"
    /\ \E body \in {<<>>, <<"w">>} : stext' = build_status_text(sfields) \o body
    /\ spc' = "built"
    /\ UNCHANGED <<sfields, sparsed>>

\* _translation_status_from_unit1 reads the marker back (line 705).
SParse ==
    /\ spc = "built"
    /\ sparsed' = parse_status_text(stext)
    /\ spc' = "parsed"
    /\ UNCHANGED <<sfields, stext>>

SReturn ==
    /\ spc = "parsed"
    /\ spc' = "idle"
    /\ sfields' = NoFields
    /\ stext' = <<>>
    /\ sparsed' = NoFields

\* ------------------------------------------------------ unchanged unit
\* The text of a translation unit:
\*   body  what it says
\*   form  its Unicode form: the store may give back the text it was sent
\*         in another Unicode form ("NFD" stands for any form that is not NFC)
\*   nl    the number of newlines at its end
MaxNewlines == 2
UnitTexts == [body : {"A", "B"}, form : {"NFC", "NFD"}, nl : 0 .. MaxNewlines]
NoUnitText == [body |-> "", form |-> "NFC", nl |-> 0]

VARIABLES
    ucur,           \* the text the store holds for the unit, NoUnitText when it has none
    unew,           \* restored: the text the run has composed for the unit
    urun,           \* [fuzzy, dry_run]: key in fuzzy_keys, args.dry_run
    uedit,          \* the text of the client.edit call, NoUnitText when none is made
    upc             \* "idle", "chosen", "done"

uvars == <<ucur, unew, urun, uedit, upc>>

UInit ==
    /\ ucur = NoUnitText
    /\ unew = NoUnitText
    /\ urun = [fuzzy |-> FALSE, dry_run |-> FALSE]
    /\ uedit = NoUnitText
    /\ upc = "idle"

\* A newline is appended whatever the text ends in.
toggle_trailing_newline_Append(text) ==
    [text EXCEPT !.nl = IF @ < MaxNewlines THEN @ + 1 ELSE @]

\* translate_page._toggle_trailing_newline: text.rstrip("\n") when the text
\* ends in a newline, text + "\n" otherwise.
toggle_trailing_newline(text) ==
    IF text.nl > 0 THEN [text EXCEPT !.nl = 0] ELSE [text EXCEPT !.nl = 1]

\* translate_page._normalized_text_equivalent: NFC, stripped.
normalized_text_equivalent(text) == [text EXCEPT !.form = "NFC", !.nl = 0]

\* The loop over the writable keys reaches a unit (lines 1895-1919).
UChoose ==
    /\ upc = "idle"
    /\ \E cur \in UnitTexts \cup {NoUnitText}, new \in UnitTexts,
          fuzzy \in BOOLEAN, dry_run \in BOOLEAN :
          /\ ucur' = cur
          /\ unew' = new
          /\ urun' = [fuzzy |-> fuzzy, dry_run |-> dry_run]
    /\ upc' = "chosen"
    /\ UNCHANGED uedit

\* main lines 1921-1943: nothing in a dry run; the stored text is read, and
\* when it equals the new text after normalization the unit is skipped, or,
\* when it is fuzzy, edited with the stored text toggled; a unit the store
\* does not hold (MediaWikiError) is edited with the new text.
UWrite ==
    /\ upc = "chosen"
    /\ uedit' =
          IF urun.dry_run THEN NoUnitText
          ELSE IF ucur = NoUnitText THEN unew
          ELSE IF normalized_text_equivalent(ucur) = normalized_text_equivalent(unew)
          THEN (IF urun.fuzzy THEN toggle_trailing_newline(ucur) ELSE NoUnitText)
          ELSE unew
    /\ upc' = "done"
    /\ UNCHANGED <<ucur, unew, urun>>

\* The next unit.
UReturn ==
    /\ upc = "done"
    /\ upc' = "idle"
    /\ ucur' = NoUnitText
    /\ unew' = NoUnitText
    /\ urun' = [fuzzy |-> FALSE, dry_run |-> FALSE]
    /\ uedit' = NoUnitText

\* ------------------------------------------------ non-linguistic segments
\* The source text of a segment is a sequence of characters of four kinds:
\*   "ascii"   a letter A-Z or a-z
\*   "letter"  a letter outside ASCII (Cyrillic, CJK, an accented letter)
\*   "digit"   a digit
\*   "markup"  punctuation, markup, white space
MaxChars == 3
CharKinds == {"ascii", "letter", "digit", "markup"}
SegTexts == UNION {[1 .. n -> CharKinds] : n \in 0 .. MaxChars}
CacheStates == {"off", "disabled", "miss", "hit"}

VARIABLES
    ntext,          \* seg.text
    ncache,         \* what the cache would answer for the segment
    nout,           \* [via, copied, provider]: cached_source_by_key, to_translate
    npc             \* "idle", "chosen", "planned"

nvars == <<ntext, ncache, nout, npc>>

NoNOut == [via |-> "", copied |-> FALSE, provider |-> FALSE]

NInit ==
    /\ ntext = <<>>
    /\ ncache = "off"
    /\ nout = NoNOut
    /\ npc = "idle"

\* translate_page._is_nonlinguistic_segment:
\* re.search(r"[A-Za-z]", text) is None.
is_nonlinguistic_segment(text) == \A i \in 1 .. Len(text) : text[i] # "ascii"

\* A segment of the page and the cache state it meets.
\*   "off"       --no-cache or no pg_dsn
\*   "disabled"  disable_cache: the key set changed
\*   "miss"      no compatible entry
\*   "hit"       a compatible entry by key or by checksum
NChoose ==
    /\ npc = "idle"
    /\ \E t \in SegTexts, c \in CacheStates :
          /\ ntext' = t
          /\ ncache' = c
    /\ npc' = "chosen"
    /\ UNCHANGED nout

\* main lines 1474-1541 and 1698-1704 for one segment in a run that is not
\* --rebuild-only: a non-linguistic segment is its own translation
\* ("source-copy"), before the cache is looked at; a cache hit serves the
\* stored text; every other segment goes to the provider.
NPlan ==
    /\ npc = "chosen"
    /\ nout' = IF is_nonlinguistic_segment(ntext)
               THEN [via |-> "source-copy", copied |-> TRUE, provider |-> FALSE]
               ELSE IF ncache = "hit"
               THEN [via |-> "db", copied |-> FALSE, provider |-> FALSE]
               ELSE [via |-> "provider", copied |-> FALSE, provider |-> TRUE]
    /\ npc' = "planned"
    /\ UNCHANGED <<ntext, ncache>>

\* The next segment.
NReturn ==
    /\ npc = "planned"
    /\ npc' = "idle"
    /\ ntext' = <<>>
    /\ ncache' = "off"
    /\ nout' = NoNOut

\* ------------------------------------------------------------ ingest_all
\* The wiki lists NumPages titles in a fixed order.  A continuation token of
\* the list is the index of the title the next request starts at; 0 is None,
\* no token.
NumPages == 8
MaxLimit == 3
PageList == [i \in 1 .. NumPages |-> i]

VARIABLES
    icursor,        \* ingest_state row "main": the persisted token
    iargs,          \* [limit]: the limit of the call
    icur,           \* cursor: the local variable of ingest_all
    ipage,          \* [titles, next]: titles not yet handled and next_cursor
    iprocessed,     \* processed
    ilog,           \* the titles ingested since the list was last started
    icalls,         \* the titles ingested by the call
    ipc             \* "idle", "fetch", "titles"

ivars == <<icursor, iargs, icur, ipage, iprocessed, ilog, icalls, ipc>>

IInit ==
    /\ icursor = 0
    /\ iargs = [limit |-> 1]
    /\ icur = 0
    /\ ipage = [titles |-> <<>>, next |-> 0]
    /\ iprocessed = 0
    /\ ilog = <<>>
    /\ icalls = <<>>
    /\ ipc = "idle"

\* mediawiki.all_pages_page: up to limit titles from the token on, and the
\* token of the title after them when there is one.
all_pages_page(limit, apcontinue) ==
    LET start == IF apcontinue = 0 THEN 1 ELSE apcontinue
        last  == IF start + limit - 1 < NumPages THEN start + limit - 1 ELSE NumPages
    IN  [titles |-> SubSeq(PageList, start, last),
         next   |-> IF last < NumPages THEN last + 1 ELSE 0]

\* ingest.ingest_all lines 270-272 with a limit: the persisted cursor is
\* read; page_size is 1.
IStart ==
    /\ ipc = "idle"
    /\ \E n \in 1 .. MaxLimit : iargs' = [limit |-> n]
    /\ icur' = icursor
    /\ iprocessed' = 0
    /\ icalls' = <<>>
    /\ ilog' = IF icursor = 0 THEN <<>> ELSE ilog
    /\ ipc' = "fetch"
    /\ UNCHANGED <<icursor, ipage>>

\* Lines 273-278: one request; no titles ends the call.
IFetch ==
    /\ ipc = "fetch"
    /\ ipage' = all_pages_page(1, icur)
    /\ ipc' = IF ipage'.titles = <<>> THEN "idle" ELSE "titles"
    /\ UNCHANGED <<icursor, iargs, icur, iprocessed, ilog, icalls>>

\* The cursor of the request is persisted at the limit.
ITitle_RequestCursor ==
    /\ ipc = "titles"
    /\ ilog' = Append(ilog, Head(ipage.titles))
    /\ icalls' = Append(icalls, Head(ipage.titles))
    /\ iprocessed' = iprocessed + 1
    /\ IF iprocessed + 1 >= iargs.limit
       THEN /\ icursor' = icur
            /\ ipc' = "idle"
            /\ UNCHANGED <<icur, ipage>>
       ELSE IF Len(ipage.titles) > 1
       THEN /\ ipage' = [ipage EXCEPT !.titles = Tail(@)]
            /\ UNCHANGED <<icursor, icur, ipc>>
       ELSE /\ icur' = ipage.next
            /\ icursor' = ipage.next
            /\ ipc' = IF ipage.next = 0 THEN "idle" ELSE "fetch"
            /\ UNCHANGED ipage
    /\ UNCHANGED iargs

\* Lines 279-297: the next title of the page is ingested (an exception of
\* ingest_title is logged) and counted; at the limit next_cursor is
\* persisted and the call returns; after the last title of the page
\* next_cursor is persisted and the loop goes on unless it is None.
ITitle ==
    /\ ipc = "titles"
    /\ ilog' = Append(ilog, Head(ipage.titles))
    /\ icalls' = Append(icalls, Head(ipage.titles))
    /\ iprocessed' = iprocessed + 1
    /\ IF iprocessed + 1 >= iargs.limit
       THEN /\ icursor' = ipage.next
            /\ ipc' = "idle"
            /\ UNCHANGED <<icur, ipage>>
       ELSE IF Len(ipage.titles) > 1
       THEN /\ ipage' = [ipage EXCEPT !.titles = Tail(@)]
            /\ UNCHANGED <<icursor, icur, ipc>>
       ELSE /\ icur' = ipage.next
            /\ icursor' = ipage.next
            /\ ipc' = IF ipage.next = 0 THEN "idle" ELSE "fetch"
            /\ UNCHANGED ipage
    /\ UNCHANGED iargs

\* -------------------------------------------------------------- poll-once
\* The recent-changes feed of the wiki is the sequence of the titles edited
\* by users, oldest first; the time stamp of a change is its place in the
\* feed.  A cursor is a time stamp, 0 for None; a continuation token is the
\* place of the next change, 0 for none.
MaxFeed == 4
RcLimit == 2
MaxPollLimit == 3
NumCursors == 2
Titles == {"A", "B"}

VARIABLES
    ofeed,          \* the recent changes of the wiki
    ocursor,        \* ingest_state rows recentchanges:<lang>, by cursor
    oqueue,         \* the titles with a queued translate_page job
    owiki,          \* the titles the bot has wrapped or marked for translation
    orun,           \* the locals of the run
    opc             \* "idle", "started", "polled", "ingested", "drained",
                    \* "done", "aborted"

ovars == <<ofeed, ocursor, oqueue, owiki, orun, opc>>

NoPoll == [changes |-> <<>>, new_since |-> 0, requests |-> 0]

NoORun == [dry_run |-> FALSE, limit |-> 0, cursors |-> [c \in 1 .. NumCursors |-> 0],
           feed |-> <<>>, polled |-> [c \in 1 .. NumCursors |-> NoPoll],
           plan_pages |-> {}, processed |-> {}]

OInit ==
    /\ ofeed = <<>>
    /\ ocursor = [c \in 1 .. NumCursors |-> 0]
    /\ oqueue = {}
    /\ owiki = {}
    /\ orun = NoORun
    /\ opc = "idle"

\* The answer of the wiki to one recentchanges request (rcdir=newer, rcstart
\* = since, rclimit): up to RcLimit changes and the token of the change
\* after them when there is one.
rc_request(feed, since, rccontinue) ==
    LET first == IF rccontinue # 0 THEN rccontinue ELSE IF since = 0 THEN 1 ELSE since
        last  == IF first + RcLimit - 1 < Len(feed) THEN first + RcLimit - 1 ELSE Len(feed)
    IN  [recentchanges |-> [k \in 1 .. (last - first + 1) |->
                               [title |-> feed[first + k - 1], timestamp |-> first + k - 1]],
         rccontinue    |-> IF last < Len(feed) THEN last + 1 ELSE 0]

\* The loop without the test of the limit before a request.
RECURSIVE poll_loop_NoLimitBeforeRequest(_, _, _, _, _, _)
poll_loop_NoLimitBeforeRequest(feed, since, limit, changes, rccontinue, requests) ==
    LET data  == rc_request(feed, since, rccontinue)
        room  == IF limit > 0 /\ limit - Len(changes) < Len(data.recentchanges)
                 THEN limit - Len(changes) ELSE Len(data.recentchanges)
        ch    == changes \o SubSeq(data.recentchanges, 1, room)
    IN  IF data.rccontinue = 0
        THEN [changes |-> ch, requests |-> requests + 1]
        ELSE IF limit > 0 /\ Len(ch) >= limit /\ requests > 0
        THEN [changes |-> ch, requests |-> requests + 1]
        ELSE poll_loop_NoLimitBeforeRequest(feed, since, limit, ch, data.rccontinue, requests + 1)

\* scheduler.poll_recent_changes, the while loop (lines 29-53): no request
\* at the limit; the changes of the answer are appended up to the limit; the
\* loop ends at the limit or when the answer has no token.  limit 0 stands
\* for None and for a limit that is not positive.
RECURSIVE poll_loop(_, _, _, _, _, _)
poll_loop(feed, since, limit, changes, rccontinue, requests) ==
    IF limit > 0 /\ Len(changes) >= limit
    THEN [changes |-> changes, requests |-> requests]
    ELSE LET data  == rc_request(feed, since, rccontinue)
             room  == IF limit > 0 /\ limit - Len(changes) < Len(data.recentchanges)
                      THEN limit - Len(changes) ELSE Len(data.recentchanges)
             ch    == changes \o SubSeq(data.recentchanges, 1, room)
         IN  IF limit > 0 /\ Len(ch) >= limit
             THEN [changes |-> ch, requests |-> requests + 1]
             ELSE IF data.rccontinue = 0
             THEN [changes |-> ch, requests |-> requests + 1]
             ELSE poll_loop(feed, since, limit, ch, data.rccontinue, requests + 1)

\* scheduler.poll_recent_changes: the changes, the new cursor (the time
\* stamp of the last change, since when there is none) and the number of
\* requests made.
poll_recent_changes(feed, since, limit) ==
    LET r == poll_loop(feed, since, limit, <<>>, 0, 0)
    IN  [changes   |-> r.changes,
         new_since |-> IF r.changes # <<>> THEN r.changes[Len(r.changes)].timestamp ELSE since,
         requests  |-> r.requests]

\* The titles of the changes of all cursors (runner._collect_poll_changes
\* merges them by title).
ChangedTitles(polled) ==
    UNION {{polled[c].changes[k].title : k \in 1 .. Len(polled[c].changes)} :
              c \in 1 .. NumCursors}

\* A user edits a page.
OEdit ==
    /\ Len(ofeed) < MaxFeed
    /\ \E t \in Titles : ofeed' = Append(ofeed, t)
    /\ UNCHANGED <<ocursor, oqueue, owiki, orun, opc>>

\* runner.main --poll-once [--dry-run] [--poll-limit n]: the cursors are
\* read (lines 471-481 and 531-542).
OStart ==
    /\ opc = "idle"
    /\ \E dry_run \in BOOLEAN, limit \in 0 .. MaxPollLimit :
          orun' = [NoORun EXCEPT !.dry_run = dry_run, !.limit = limit, !.cursors = ocursor]
    /\ opc' = "started"
    /\ UNCHANGED <<ofeed, ocursor, oqueue, owiki>>

\* runner._collect_poll_changes (lines 483-485, 543-545): every cursor is
\* polled; a failed request raises and the run aborts.
OPoll ==
    /\ opc = "started"
    /\ \/ /\ orun' = [orun EXCEPT
                         !.feed = ofeed,
                         !.polled = [c \in 1 .. NumCursors |->
                                        poll_recent_changes(ofeed, orun.cursors[c], orun.limit)]]
          /\ opc' = "polled"
       \/ /\ opc' = "aborted"
          /\ UNCHANGED orun
    /\ UNCHANGED <<ofeed, ocursor, oqueue, owiki>>

\* The dry run enqueues what it plans.
OPlan_Enqueue ==
    /\ opc = "polled"
    /\ orun.dry_run
    /\ \E would \in SUBSET ChangedTitles(orun.polled) :
          /\ orun' = [orun EXCEPT !.plan_pages = would]
          /\ oqueue' = oqueue \cup would
    /\ opc' = "done"
    /\ UNCHANGED <<ofeed, ocursor, owiki>>

\* Lines 486-527, --dry-run: ingest_title(dry_run=True) for every changed
\* title records the pages it would queue (ingest.py: every enqueue_job,
\* client.edit and mark request stands under "if not dry_run"); the plan is
\* printed and main returns; an exception of ingest_title ends the run.
OPlan ==
    /\ opc = "polled"
    /\ orun.dry_run
    /\ \/ /\ \E would \in SUBSET ChangedTitles(orun.polled) :
                orun' = [orun EXCEPT !.plan_pages = would]
          /\ opc' = "done"
       \/ /\ opc' = "aborted"
          /\ UNCHANGED orun
    /\ UNCHANGED <<ofeed, ocursor, oqueue, owiki>>

\* Lines 546-565: ingest_title for every changed title: it enqueues the
\* translations of the pages that have units and wraps and marks pages that
\* have none; an exception of ingest_title is logged.
OIngest ==
    /\ opc = "polled"
    /\ ~orun.dry_run
    /\ \E enq \in SUBSET ChangedTitles(orun.polled) :
       \E wrapped \in SUBSET ChangedTitles(orun.polled) :
          /\ oqueue' = oqueue \cup enq
          /\ owiki' = owiki \cup wrapped
    /\ opc' = "ingested"
    /\ UNCHANGED <<ofeed, ocursor, orun>>

\* Lines 566-581, one turn of the loop: no queued job ends it; otherwise
\* process_queue handles a batch, whose jobs are marked done or error, or a
\* SystemExit of translate_page leaves process_queue and main.
OProcess ==
    /\ opc = "ingested"
    /\ IF oqueue = {}
       THEN /\ opc' = "drained"
            /\ UNCHANGED <<oqueue, orun>>
       ELSE \/ /\ \E handled \in SUBSET oqueue :
                     /\ handled # {}
                     /\ oqueue' = oqueue \ handled
                     /\ orun' = [orun EXCEPT !.processed = @ \cup handled]
               /\ opc' = "ingested"
            \/ /\ opc' = "aborted"
               /\ UNCHANGED <<oqueue, orun>>
    /\ UNCHANGED <<ofeed, ocursor, owiki>>

\* The first cursor is committed before the rest of the transaction fails.
OCommit_Partial ==
    /\ opc = "drained"
    /\ \/ /\ ocursor' = [c \in 1 .. NumCursors |-> orun.polled[c].new_since]
          /\ opc' = "done"
       \/ /\ ocursor' = [ocursor EXCEPT ![1] = orun.polled[1].new_since]
          /\ opc' = "aborted"
    /\ UNCHANGED <<ofeed, oqueue, owiki, orun>>

\* Lines 582-587: one transaction sets every cursor to its new value,
\* finishes the run and writes the report; get_conn commits it, or rolls it
\* back when any of it raises (db.py lines 17-26).
OCommit ==
    /\ opc = "drained"
    /\ \/ /\ ocursor' = [c \in 1 .. NumCursors |-> orun.polled[c].new_since]
          /\ opc' = "done"
       \/ /\ opc' = "aborted"
          /\ UNCHANGED ocursor
    /\ UNCHANGED <<ofeed, oqueue, owiki, orun>>

\* main returns or raises (lines 588-596); the next invocation may start.
OReturn ==
    /\ opc \in {"done", "aborted"}
    /\ opc' = "idle"
    /\ orun' = NoORun
    /\ UNCHANGED <<ofeed, ocursor, oqueue, owiki>>

\* ----------------------------------------------------------------- request
\* MediaWikiClient._request.  A call is a frame of the call stack; the
\* refresh of the CSRF token is a call of _request of its own (a GET without
\* token, through get_csrf_token), so the stack has at most two frames.
MaxAttempts == 5

\* The answers of the wiki to one HTTP request: data, an API error with its
\* code and whether its info names a rate limit, or an HTTP error status.
Responses ==
    {[kind |-> "data", rate_info |-> FALSE], [kind |-> "http", rate_info |-> FALSE]}
    \cup [kind : {"badtoken", "ratelimited", "other"}, rate_info : BOOLEAN]

VARIABLES
    tstack,         \* the frames of _request, the running one last
    tcsrf           \* client.csrf_token: 0 for None, else the number of the token

tvars == <<tstack, tcsrf>>

\* The locals of a call at its start (lines 45-48).
NewFrame(method, has_token) ==
    [method |-> method, has_token |-> has_token, attempt |-> 0, backoff |-> 1,
     badtoken_retry |-> FALSE, sent |-> 0, sleeps |-> <<>>, refreshes |-> 0,
     last |-> "none", result |-> "running"]

TInit ==
    /\ tstack = <<>>
    /\ tcsrf = 0

\* The refresh is not recorded, so every badtoken answer is retried.
request_attempt_RefreshAgain(f, resp) ==
    LET g == [f EXCEPT !.sent = @ + 1, !.last = resp.kind]
    IN  IF resp.kind = "http" THEN [g EXCEPT !.result = "HTTPError"]
        ELSE IF resp.kind = "data" THEN [g EXCEPT !.result = "data"]
        ELSE IF resp.kind = "badtoken" /\ f.method = "POST" /\ f.has_token
        THEN [g EXCEPT !.refreshes = @ + 1, !.result = "refresh"]
        ELSE IF (resp.kind = "ratelimited" \/ resp.rate_info) /\ f.attempt < MaxAttempts - 1
        THEN [g EXCEPT !.sleeps = Append(@, f.backoff), !.backoff = 2 * @,
                       !.attempt = @ + 1,
                       !.result = IF f.attempt + 1 = MaxAttempts
                                  THEN "MediaWikiError" ELSE "running"]
        ELSE [g EXCEPT !.result = "MediaWikiError"]

\* One turn of the loop (lines 49-74): the request is sent and its answer
\* handled.  raise_for_status raises for an HTTP error status; data without
\* "error" is returned; the first badtoken answer to a POST with a token
\* starts the refresh; a rate-limited answer before the last attempt sleeps
\* backoff seconds and doubles it; every other error raises MediaWikiError.
request_attempt(f, resp) ==
    LET g == [f EXCEPT !.sent = @ + 1, !.last = resp.kind]
    IN  IF resp.kind = "http" THEN [g EXCEPT !.result = "HTTPError"]
        ELSE IF resp.kind = "data" THEN [g EXCEPT !.result = "data"]
        ELSE IF resp.kind = "badtoken" /\ f.method = "POST" /\ f.has_token
                /\ ~f.badtoken_retry
        THEN [g EXCEPT !.badtoken_retry = TRUE, !.refreshes = @ + 1,
                       !.result = "refresh"]
        ELSE IF (resp.kind = "ratelimited" \/ resp.rate_info) /\ f.attempt < MaxAttempts - 1
        THEN [g EXCEPT !.sleeps = Append(@, f.backoff), !.backoff = 2 * @,
                       !.attempt = @ + 1,
                       !.result = IF f.attempt + 1 = MaxAttempts
                                  THEN "MediaWikiError" ELSE "running"]
        ELSE [g EXCEPT !.result = "MediaWikiError"]

\* "continue" after the refresh (lines 61-64): the next turn of the loop, or
\* the end of the loop and line 75.
request_continue(f) ==
    [f EXCEPT !.attempt = @ + 1,
              !.result = IF f.attempt + 1 = MaxAttempts
                         THEN "MediaWikiError" ELSE "running"]

\* A caller calls _request.
TCall ==
    /\ tstack = <<>>
    /\ \E method \in {"GET", "POST"}, has_token \in BOOLEAN :
          tstack' = <<NewFrame(method, has_token)>>
    /\ UNCHANGED tcsrf

\* The running call sends a request; with the refresh it calls
\* get_csrf_token, which calls _request (lines 100-101).
TSend ==
    /\ tstack # <<>>
    /\ LET n == Len(tstack)
       IN  /\ tstack[n].result = "running"
           /\ \E resp \in Responses :
                 LET f == request_attempt(tstack[n], resp)
                 IN  tstack' = IF f.result = "refresh"
                               THEN Append([tstack EXCEPT ![n] = f], NewFrame("GET", FALSE))
                               ELSE [tstack EXCEPT ![n] = f]
    /\ UNCHANGED tcsrf

\* A call ends.  The end of the token request goes to get_csrf_token in the
\* refreshing call: with data and a token in it the token is stored and the
\* loop continues (lines 102-105 and 62-64); an empty token raises
\* MediaWikiError, and an exception of the token request propagates.
TReturn ==
    /\ tstack # <<>>
    /\ LET n == Len(tstack)
       IN  /\ tstack[n].result \in {"data", "MediaWikiError", "HTTPError"}
           /\ IF n = 1
              THEN /\ tstack' = <<>>
                   /\ UNCHANGED tcsrf
              ELSE IF tstack[n].result = "data"
              THEN \/ /\ tcsrf' = (tcsrf % 2) + 1
                      /\ tstack' = <<request_continue(tstack[1])>>
                   \/ /\ tstack' = <<[tstack[1] EXCEPT !.result = "MediaWikiError"]>>
                      /\ UNCHANGED tcsrf
              ELSE /\ tstack' = <<[tstack[1] EXCEPT !.result = tstack[n].result]>>
                   /\ UNCHANGED tcsrf

\* -------------------------------------------------------------- link display
\* The display texts of the internal links of the segments that go to the
\* provider.  A link is its rewritten target and its display text, NoLabel
\* for a link without one; a text is its wording and its language.
MaxDocLinks == 3
LinkTargets == {"P/sr", "Q/sr"}
NoLabel == "<none>"
NoTranslateTerms == {"Brand"}
LinkLabels == {"first", "second", "Brand", NoLabel}

VARIABLES
    dlinks,         \* link_meta of the segments, in document order
    dreq,           \* link_display_requests
    dtr,            \* link_display_translated
    dout,           \* the display texts of the links in the restored segments
    dpc             \* "idle", "chosen", "translated", "restored"

dvars == <<dlinks, dreq, dtr, dout, dpc>>

NoTranslated == [text |-> NoLabel, lang |-> "-"]

DInit ==
    /\ dlinks = <<>>
    /\ dreq = [t \in LinkTargets |-> NoLabel]
    /\ dtr = [t \in LinkTargets |-> NoTranslated]
    /\ dout = <<>>
    /\ dpc = "idle"

\* _should_translate_display: a display text that is a no-translate term is
\* not translated.
should_translate_display(display) == display \notin NoTranslateTerms

\* The provider turns a text of the source language into one of the target
\* language.
engine_translate(text) == [text |-> text, lang |-> "sr"]

\* Lines 1595-1615: link_display_requests[target] = display for every
\* explicit link of the segments, in order.
RECURSIVE link_display_requests(_, _, _)
link_display_requests(links, i, req) ==
    IF i > Len(links) THEN req
    ELSE LET l == links[i]
         IN  link_display_requests(links, i + 1,
                 IF l.display # NoLabel /\ should_translate_display(l.display)
                 THEN [req EXCEPT ![l.target] = l.display] ELSE req)

\* Lines 1751-1762, _rewrite_display on the link restored from its token:
\* a target with a translated display gets it; otherwise the display of the
\* source, the target for a link without display, is kept.
rewrite_display_text(l, translated) ==
    IF \A t \in LinkTargets : translated[t] = NoTranslated
    THEN [text |-> l.display, lang |-> "en"]
    ELSE IF translated[l.target] # NoTranslated THEN translated[l.target]
    ELSE [text |-> IF l.display = NoLabel THEN l.target ELSE l.display, lang |-> "en"]

\* The source segments of a run hold some links.
DChoose ==
    /\ dpc = "idle"
    /\ \E n \in 1 .. MaxDocLinks :
          \E links \in [1 .. n -> [target : LinkTargets, display : LinkLabels]] :
             dlinks' = links
    /\ dpc' = "chosen"
    /\ UNCHANGED <<dreq, dtr, dout>>

\* Lines 1595-1634: the links are tokenized, the display texts to translate
\* are collected and translated in one batch.
DTranslate ==
    /\ dpc = "chosen"
    /\ dreq' = link_display_requests(dlinks, 1, [t \in LinkTargets |-> NoLabel])
    /\ dtr' = [t \in LinkTargets |->
                 IF dreq'[t] = NoLabel THEN NoTranslated ELSE engine_translate(dreq'[t])]
    /\ dpc' = "translated"
    /\ UNCHANGED <<dlinks, dout>>

\* Lines 1733-1762: the tokens are restored to the links with the display of
\* the source and the display texts are rewritten.
DRestore ==
    /\ dpc = "translated"
    /\ dout' = [k \in 1 .. Len(dlinks) |-> rewrite_display_text(dlinks[k], dtr)]
    /\ dpc' = "restored"
    /\ UNCHANGED <<dlinks, dreq, dtr>>

\* The run ends.
DReturn ==
    /\ dpc = "restored"
    /\ dlinks' = <<>>
    /\ dreq' = [t \in LinkTargets |-> NoLabel]
    /\ dtr' = [t \in LinkTargets |-> NoTranslated]
    /\ dout' = <<>>
    /\ dpc' = "idle"

\* ---------------------------------------------------------------- drain loop
\* The drain loop of runner.main (run-all lines 423-428, poll-once lines
\* 568-581) in one process, with no enqueue while it runs.  The rows of table
\* jobs are numbered by id; a row is "queued", "done" or "error".
MaxDrainJobs == 6

VARIABLES
    kjobs,          \* the status of the rows of table jobs, by id
    kbatch,         \* process_queue: jobs
    kpos,           \* process_queue: the place of the for loop in jobs
    kpend,          \* the row updates of the open transaction of process_queue
    kcalls,         \* the calls of process_queue of this loop, counted up to
                    \* MaxDrainJobs
    kpc             \* "ingest", "check", "call", "batch", "ended"

kvars == <<kjobs, kbatch, kpos, kpend, kcalls, kpc>>

KInit ==
    /\ kjobs = <<>>
    /\ kbatch = <<>>
    /\ kpos = 0
    /\ kpend = <<>>
    /\ kcalls = 0
    /\ kpc = "ingest"

\* jobs.next_jobs on the rows: the ids of the queued rows, lowest first, up
\* to limit.
RECURSIVE queued_ids(_, _, _)
queued_ids(rows, i, limit) ==
    IF i > Len(rows) \/ limit = 0 THEN <<>>
    ELSE IF rows[i] = "queued" THEN <<i>> \o queued_ids(rows, i + 1, limit - 1)
    ELSE queued_ids(rows, i + 1, limit)

\* A job that raised stays queued for another try.
job_mark_Requeue(out) == IF out = "Exception" THEN "queued" ELSE "done"

\* runner.process_queue lines 214-216: mark_job_done after a run that
\* returned (or a language that is no target), mark_job_error after one that
\* raised an Exception.
job_mark(out) == IF out = "Exception" THEN "error" ELSE "done"

\* Before the loop, ingest enqueues jobs (jobs.enqueue_job).
KEnqueue ==
    /\ kpc = "ingest"
    /\ Len(kjobs) < MaxDrainJobs
    /\ kjobs' = Append(kjobs, "queued")
    /\ UNCHANGED <<kbatch, kpos, kpend, kcalls, kpc>>

\* The loop is entered.
KBegin ==
    /\ kpc = "ingest"
    /\ kpc' = "check"
    /\ UNCHANGED <<kjobs, kbatch, kpos, kpend, kcalls>>

\* "if not next_jobs(conn, limit=1): break".
KCheck ==
    /\ kpc = "check"
    /\ kpc' = IF queued_ids(kjobs, 1, 1) = <<>> THEN "ended" ELSE "call"
    /\ UNCHANGED <<kjobs, kbatch, kpos, kpend, kcalls>>

\* process_queue is called: next_jobs(conn, limit=5) (lines 152-153).
KFetch ==
    /\ kpc = "call"
    /\ kbatch' = queued_ids(kjobs, 1, BatchLimit)
    /\ kpos' = 1
    /\ kpend' = kjobs
    /\ kcalls' = IF kcalls < MaxDrainJobs THEN kcalls + 1 ELSE kcalls
    /\ kpc' = "batch"
    /\ UNCHANGED kjobs

\* One job of the batch (lines 154-218): its language is no target, or its
\* run returns, or its run raises an Exception; the row is marked.
KJob ==
    /\ kpc = "batch"
    /\ kpos <= Len(kbatch)
    /\ \E out \in {"skip", "returned", "Exception"} :
          kpend' = [kpend EXCEPT ![kbatch[kpos]] = job_mark(out)]
    /\ kpos' = kpos + 1
    /\ UNCHANGED <<kjobs, kbatch, kcalls, kpc>>

\* The for loop is over; get_conn commits and process_queue returns.
KCommit ==
    /\ kpc = "batch"
    /\ kpos > Len(kbatch)
    /\ kjobs' = kpend
    /\ kpc' = "check"
    /\ UNCHANGED <<kbatch, kpos, kpend, kcalls>>

\* The steps of the loop: each is a blocking call that returns.
KRun == KCheck \/ KFetch \/ KJob \/ KCommit

\* ---------------------------------------------------------------- run record
\* The row of table translation_runs that runner.main writes for a run in
\* run-all mode (lines 395-442) or poll-once mode (lines 530-596), one
\* process after the other.
MaxRuns == 3
MaxRunJobs == 2

VARIABLES
    fruns,          \* the committed rows of translation_runs: their status
    fmode,          \* "run-all", "poll-once"; "-" outside a run
    frun_id,        \* run_id of main: 0 for None, else the id start_run returned
    fjobs,          \* the jobs whose translation has ended in this run
    fpc             \* "idle", "work", "finish", "except", "exited"

fvars == <<fruns, fmode, frun_id, fjobs, fpc>>

FInit ==
    /\ fruns = <<>>
    /\ fmode = "-"
    /\ frun_id = 0
    /\ fjobs = 0
    /\ fpc = "idle"

\* run_report.finish_run: UPDATE ... SET status WHERE id = run_id; a run id
\* without a row updates nothing.
finish_run(runs, id, st) ==
    IF id \in 1 .. Len(runs) THEN [runs EXCEPT ![id] = st] ELSE runs

\* The first transaction of the run.  poll-once (lines 533-542): start_run
\* and the read of the cursors, committed.  run-all (lines 397-420):
\* start_run, ingest_all and delete_jobs_not_in_langs in one transaction,
\* which an exception of ingest_all rolls back, row included.
FStart ==
    /\ fpc = "idle"
    /\ Len(fruns) < MaxRuns
    /\ frun_id' = Len(fruns) + 1
    /\ fjobs' = 0
    /\ \E mode \in {"run-all", "poll-once"} :
          /\ fmode' = mode
          /\ \/ /\ fruns' = Append(fruns, "running")
                /\ fpc' = "work"
             \/ /\ mode = "run-all"
                /\ fruns' = fruns
                /\ fpc' = "except"

\* The work of the run up to the end of the drain loop (lines 421-428,
\* 543-581).  The translation of a job returns, or raises an Exception,
\* which process_queue catches (line 215), or raises SystemExit, which
\* neither process_queue nor the except branch of main catches, so the
\* process ends; another step of the run (the poll, a statement on the
\* database) raises an Exception; or the loop ends.
FWork ==
    /\ fpc = "work"
    /\ \/ /\ fjobs < MaxRunJobs
          /\ \E out \in {"returned", "Exception", "SystemExit"} :
                /\ fjobs' = fjobs + 1
                /\ fpc' = IF out = "SystemExit" THEN "exited" ELSE "work"
       \/ /\ fpc' \in {"except", "finish"}
          /\ fjobs' = fjobs
    /\ UNCHANGED <<fruns, fmode, frun_id>>

\* Lines 431-434, 583-587: finish_run(conn, run_id, "done") and the report
\* in one transaction; when the report raises, the transaction is rolled
\* back and the except branch runs.
FFinish ==
    /\ fpc = "finish"
    /\ \/ /\ fruns' = finish_run(fruns, frun_id, "done")
          /\ fpc' = "exited"
       \/ /\ fruns' = fruns
          /\ fpc' = "except"
    /\ UNCHANGED <<fmode, frun_id, fjobs>>

\* Lines 436-441, 588-595: "except Exception": finish_run(conn, run_id,
\* "error"), the error item and the report; the exception is raised again
\* and ends the process.
FExcept ==
    /\ fpc = "except"
    /\ fruns' = finish_run(fruns, frun_id, "error")
    /\ fpc' = "exited"
    /\ UNCHANGED <<fmode, frun_id, fjobs>>

\* The process has ended; the runner is started again later.
FRestart ==
    /\ fpc = "exited"
    /\ fpc' = "idle"
    /\ fmode' = "-"
    /\ frun_id' = 0
    /\ fjobs' = 0
    /\ UNCHANGED fruns

\* ------------------------------------------------------------- cache writer
\* The runs of translate_page.main on one document in the languages
\* CacheLangs, one after the other, as far as the cache store and the
\* translation units are concerned.  The text of a unit or of a cache entry
\* is told by the language and the source text it translates.
CacheLangs == {"sr", "de"}
NoUnit == <<>>
NoCached == [sum |-> NoSum, text |-> NoUnit]
NoHit == [via |-> "", text |-> NoUnit]

VARIABLES
    hsrc,           \* source segments of the document: key -> text or NoText
    hunit,          \* translation units: language -> key -> text or NoUnit
    hrev,           \* the revision of the source document
    hmeta,          \* language -> the source revision that its metadata unit names
    hseg,           \* table segments of the document: key -> checksum or NoSum
    htr,            \* table translations: language -> key -> entry or NoCached
    hlast           \* what the last run did, until the source is edited

hvars == <<hsrc, hunit, hrev, hmeta, hseg, htr, hlast>>

NoLast == [lang |-> "", ok |-> FALSE, store |-> FALSE, disable_cache |-> FALSE,
           hit |-> [k \in Keys |-> NoHit], written |-> {}]

HInit ==
    /\ hsrc = [k \in Keys |-> IF k = 1 THEN "plain" ELSE NoText]
    /\ hunit = [l \in CacheLangs |-> [k \in Keys |-> NoUnit]]
    /\ hrev = 0
    /\ hmeta = [l \in CacheLangs |-> 0]
    /\ hseg = [k \in Keys |-> NoSum]
    /\ htr = [l \in CacheLangs |-> [k \in Keys |-> NoCached]]
    /\ hlast = NoLast

\* The provider's translation of source text t into language l.
provider_translate(t, l) == <<l, t>>

\* Cache store, get-cached-translation(document, key, language, checksum).
get_cached_translation(tab, l, k, sum) ==
    IF tab[l][k] # NoCached /\ tab[l][k].sum = sum THEN tab[l][k] ELSE NoCached

\* Cache store, get-cached-translation-by-checksum(checksum, language).
get_cached_translation_by_checksum(tab, l, sum) ==
    LET found == {j \in Keys : tab[l][j] # NoCached /\ tab[l][j].sum = sum}
    IN  IF found = {} THEN NoCached ELSE tab[l][CHOOSE j \in found : TRUE]

\* The exact lookup without the checksum of the entry.
segment_lookup_AnyChecksum(tab, l, k, src, existing, enabled) ==
    LET sum == Checksum(src)
        l1  == tab[l][k]
        l2  == get_cached_translation_by_checksum(tab, l, sum)
    IN  IF ~enabled THEN NoHit
        ELSE IF existing[k] = sum /\ l1 # NoCached THEN [via |-> "db-key", text |-> l1.text]
        ELSE IF l2 # NoCached THEN [via |-> "db-checksum", text |-> l2.text]
        ELSE NoHit

\* main lines 1474-1521 for the segment with key k and text src, the
\* templates of source and cached text taken to agree:
\*   existing  existing_checksums
\*   enabled   the cache is configured and read and not bypassed
segment_lookup(tab, l, k, src, existing, enabled) ==
    LET sum == Checksum(src)
        l1  == get_cached_translation(tab, l, k, sum)
        l2  == get_cached_translation_by_checksum(tab, l, sum)
    IN  IF ~enabled THEN NoHit
        ELSE IF existing[k] = sum /\ l1 # NoCached THEN [via |-> "db-key", text |-> l1.text]
        ELSE IF l2 # NoCached THEN [via |-> "db-checksum", text |-> l2.text]
        ELSE NoHit

\* The cache entry of the metadata segment left out.
upsert_cache_NotMetadata(seg, tr, l, written, sums, final) ==
    [seg |-> [k \in Keys |-> IF k \in written \ {1} THEN sums[k] ELSE seg[k]],
     tr  |-> [tr EXCEPT ![l] = [k \in Keys |->
                 IF k \in written \ {1} THEN [sum |-> sums[k], text |-> final[k]] ELSE @[k]]]]

\* main lines 2005-2026 over the run: upsert_segment and upsert_translation
\* for every key whose unit edit was made and verified.
upsert_cache(seg, tr, l, written, sums, final) ==
    [seg |-> [k \in Keys |-> IF k \in written THEN sums[k] ELSE seg[k]],
     tr  |-> [tr EXCEPT ![l] = [k \in Keys |->
                 IF k \in written THEN [sum |-> sums[k], text |-> final[k]] ELSE @[k]]]]

\* An editor changes a segment of the source document, or adds or removes
\* one after the first; the page gets a new revision.
HEditSource ==
    /\ \E k \in Keys, t \in Texts \cup {NoText} :
          /\ hsrc[k] # t
          /\ (k = 1 => t # NoText)
          /\ hsrc' = [hsrc EXCEPT ![k] = t]
    /\ hrev < MaxRev
    /\ hrev' = hrev + 1
    /\ hlast' = NoLast
    /\ UNCHANGED <<hunit, hmeta, hseg, htr>>

\* translate_page.main for language l, not a dry run, not --rebuild-only,
\* not --no-cache, past the status gate (lines 1425-2028).
\*   store   cfg.pg_dsn is set and the statements on the cache store succeed
\*   fuzzy   the units the content store reports fuzzy (lines 1440-1457,
\*           get_message_collection taken to answer)
\*   stop    0, or the key at which the verification of the unit edit fails
\*           for the second time (line 1996: RuntimeError, the run ends)
HRun ==
    \E l \in CacheLangs, store \in BOOLEAN, fuzzy \in SUBSET Keys, stop \in 0 .. NumKeys :
        LET current      == {k \in Keys : hsrc[k] # NoText}
            metadata_key == CHOOSE k \in current : \A j \in current : k <= j
            existing     == IF store THEN hseg ELSE [k \in Keys |-> NoSum]
            disable      == disable_cache(existing, current)
            hit          == [k \in Keys |->
                               IF k \in current
                               THEN segment_lookup(htr, l, k, hsrc[k], existing, store /\ ~disable)
                               ELSE NoHit]
            to_translate == {k \in current : hit[k].via = ""}
            final        == [k \in Keys |->
                               IF hit[k].via # "" THEN hit[k].text
                               ELSE provider_translate(hsrc[k], l)]
            untranslated == {k \in current : hunit[l][k] = NoUnit}
            writable     == (IF disable THEN current ELSE to_translate)
                            \cup {metadata_key} \cup fuzzy \cup untranslated
            differs(k)   == \/ hunit[l][k] # final[k]
                            \/ k \in fuzzy
                            \/ k = metadata_key /\ hmeta[l] # hrev
            edited       == {k \in writable : differs(k)}
            written      == {k \in edited : stop = 0 \/ k < stop}
            sums         == [k \in Keys |-> Checksum(hsrc[k])]
            stored       == IF store
                            THEN upsert_cache(hseg, htr, l, written, sums, final)
                            ELSE [seg |-> hseg, tr |-> htr]
        IN  /\ fuzzy \subseteq {k \in current : hunit[l][k] # NoUnit}
            /\ stop \in edited \cup {0}
            /\ hunit' = [hunit EXCEPT ![l] =
                            [k \in Keys |-> IF k \in written THEN final[k] ELSE @[k]]]
            /\ hmeta' = IF metadata_key \in written THEN [hmeta EXCEPT ![l] = hrev] ELSE hmeta
            /\ hseg' = stored.seg
            /\ htr' = stored.tr
            /\ hlast' = [lang |-> l, ok |-> stop = 0, store |-> store,
                         disable_cache |-> disable, hit |-> hit, written |-> written]
            /\ UNCHANGED <<hsrc, hrev>>

\* ------------------------------------------------------- state-changing calls
\* One run of translate_page.main as far as its flags decide which
\* state-changing calls it makes on the content store and the cache store.
\* --rebuild-only and --no-cache choose what is read and translated, not
\* which calls are made, and are left out.
Flags == [dry_run : BOOLEAN, approve_only : BOOLEAN, auto_approve : BOOLEAN,
          clear_fuzzy : BOOLEAN, auto_review : BOOLEAN, pg_dsn : BOOLEAN]
NoFlags == [dry_run |-> FALSE, approve_only |-> FALSE, auto_approve |-> FALSE,
            clear_fuzzy |-> FALSE, auto_review |-> FALSE, pg_dsn |-> FALSE]

VARIABLES
    yargs,          \* args and cfg.pg_dsn of the run
    ycalls,         \* the state-changing calls the run has made
    ypc             \* "idle", "approve_only", "gate", "title", "write", "clear",
                    \* "sync", "approve", "ai_status", "done"

yvars == <<yargs, ycalls, ypc>>

YInit ==
    /\ yargs = NoFlags
    /\ ycalls = {}
    /\ ypc = "idle"

\* Lines 1226-1257: the arguments are parsed, the client logs in.
YStart ==
    /\ ypc = "idle"
    /\ yargs' \in Flags
    /\ ycalls' = {}
    /\ ypc' = IF yargs'.approve_only THEN "approve_only" ELSE "gate"

\* Lines 1258-1283, --approve-only: the assembled page is read and
\* approved, whatever the other flags; main returns.
YApproveOnly ==
    /\ ypc = "approve_only"
    /\ \E out \in {"approved", "no_revisions", "error"} :
          ycalls' = IF out = "approved" THEN ycalls \cup {"approve"} ELSE ycalls
    /\ ypc' = "done"
    /\ UNCHANGED yargs

\* Lines 1302-1366, the status gate: the translation is locked (reviewed or
\* outdated), or reviewed with a changed source, which marks it outdated
\* unless the run is a dry run (line 1325), or the run goes on; a page
\* without segments ends the run (line 1366).
YGate ==
    /\ ypc = "gate"
    /\ \E gate \in {"locked", "mark_outdated", "proceed", "no_segments"},
          editOk \in BOOLEAN, aiOk \in BOOLEAN :
          /\ ycalls' = IF gate = "mark_outdated" /\ ~yargs.dry_run /\ editOk
                       THEN ycalls \cup {"edit_unit"} \cup (IF aiOk THEN {"ai_status"} ELSE {})
                       ELSE ycalls
          /\ ypc' = IF gate = "proceed" THEN "title" ELSE "done"
    /\ UNCHANGED yargs

\* Lines 1836-1853: the display-title unit of the page, when the run has a
\* display title.
YDisplayTitle ==
    /\ ypc = "title"
    /\ \E has_value \in BOOLEAN, ok \in BOOLEAN :
          ycalls' = IF has_value /\ ~yargs.dry_run /\ ok
                    THEN ycalls \cup {"edit_displaytitle"} ELSE ycalls
    /\ ypc' = "write"
    /\ UNCHANGED yargs

\* Lines 1893-2028, the write loop: a dry run logs and goes on (line 1921);
\* else a unit that differs is edited and verified, reviewed with
\* --auto-review and recorded in the cache when cfg.pg_dsn is set.
\*   differs  some writable unit differs from its stored text
\*   saved    its edit is verified (else RuntimeError, line 1996)
YWrite ==
    /\ ypc = "write"
    /\ \E differs \in BOOLEAN, saved \in BOOLEAN, cacheOk \in BOOLEAN :
          LET edits == ~yargs.dry_run /\ differs
          IN  /\ ycalls' = ycalls
                    \cup (IF edits THEN {"edit_unit"} ELSE {})
                    \cup (IF edits /\ saved /\ yargs.auto_review THEN {"review"} ELSE {})
                    \cup (IF edits /\ saved /\ yargs.pg_dsn /\ cacheOk THEN {"cache_write"} ELSE {})
              /\ ypc' = IF edits /\ ~saved THEN "done" ELSE "clear"
    /\ UNCHANGED yargs

\* Lines 2030-2069: the units the store still reports fuzzy are edited.
YClearFuzzy ==
    /\ ypc = "clear"
    /\ \E fuzzy \in BOOLEAN :
          ycalls' = IF yargs.clear_fuzzy /\ ~yargs.dry_run /\ fuzzy
                    THEN ycalls \cup {"edit_unit"} ELSE ycalls
    /\ ypc' = "sync"
    /\ UNCHANGED yargs

\* Lines 2071-2096: the status template of the metadata unit when the unit
\* was not among the keys of the run (--start-key).
YSyncStatus ==
    /\ ypc = "sync"
    /\ \E outside \in BOOLEAN, ok \in BOOLEAN :
          ycalls' = IF ~yargs.dry_run /\ outside /\ ok
                    THEN ycalls \cup {"edit_unit"} ELSE ycalls
    /\ ypc' = "approve"
    /\ UNCHANGED yargs

\* Lines 2098-2118, --auto-approve: the assembled page is approved and
\* purged; without a revision main returns.
YApprove ==
    /\ ypc = "approve"
    /\ \E out \in {"approved", "no_revisions"}, purged \in BOOLEAN :
          IF ~yargs.auto_approve
          THEN ycalls' = ycalls /\ ypc' = "ai_status"
          ELSE IF out = "no_revisions"
          THEN ycalls' = ycalls /\ ypc' = "done"
          ELSE /\ ycalls' = ycalls \cup {"approve"} \cup (IF purged THEN {"purge"} ELSE {})
               /\ ypc' = "ai_status"
    /\ UNCHANGED yargs

\* Lines 2120-2130: the status metadata of the translated page.
YAiStatus ==
    /\ ypc = "ai_status"
    /\ \E aiOk \in BOOLEAN :
          ycalls' = IF ~yargs.dry_run /\ aiOk THEN ycalls \cup {"ai_status"} ELSE ycalls
    /\ ypc' = "done"
    /\ UNCHANGED yargs

\* main has returned or raised.
YReturn ==
    /\ ypc = "done"
    /\ ypc' = "idle"
    /\ yargs' = NoFlags
    /\ ycalls' = {}

\* ------------------------------------------------------- specifications
vars == <<sourceRev, aiInfo, props, units, pc, args, rep, status_meta, status,
          plan, idx, log, result, jobs, wpc, batch, pos, pend, exitJob,
          run_id, ret, prow, run_items, pages,
          csrc, segtab, trtab, cpc, crun, lseg, lpc, lrun, ptext, ppc, pres,
          rpage, rlang, rsource, rpc, rout, rdisplay, rlocal,
          mtext, mother, mrun, mpc, mout,
          sfields, stext, sparsed, spc,
          ucur, unew, urun, uedit, upc,
          ntext, ncache, nout, npc,
          icursor, iargs, icur, ipage, iprocessed, ilog, icalls, ipc,
          ofeed, ocursor, oqueue, owiki, orun, opc,
          tstack, tcsrf,
          dlinks, dreq, dtr, dout, dpc,
          kjobs, kbatch, kpos, kpend, kcalls, kpc,
          fruns, fmode, frun_id, fjobs, fpc,
          hsrc, hunit, hrev, hmeta, hseg, htr, hlast,
          yargs, ycalls, ypc>>

\* The variables of the parts of the model that follow the job queue.
xvars == <<cvars, lvars, pvars, rvars, mvars, svars, uvars, nvars, ivars, ovars, tvars, dvars, kvars, fvars, hvars, yvars>>

Init == GInit /\ QInit /\ CInit /\ LInit /\ PInit /\ RInit /\ MInit /\ SInit /\ UInit /\ NInit /\ IInit /\ OInit /\ TInit /\ DInit /\ KInit /\ FInit /\ HInit /\ YInit

\* The status gate under every state of the three status sources and every
\* outcome of their reads; the content store itself answers without fault.
Next ==
    \/ EditSource /\ UNCHANGED <<qvars, xvars>>
    \/ ExtSetAiInfo /\ UNCHANGED <<qvars, xvars>>
    \/ ExtSetProps /\ UNCHANGED <<qvars, xvars>>
    \/ HumanEditUnit /\ UNCHANGED <<qvars, xvars>>
    \/ StartRun /\ UNCHANGED <<qvars, xvars>>
    \/ MarkOutdated /\ UNCHANGED <<qvars, xvars>>
    \/ TranslateNoCache /\ UNCHANGED <<qvars, xvars>>
    \/ WriteSegmentNoFault /\ UNCHANGED <<qvars, xvars>>
    \/ FinishNoFuzzy /\ UNCHANGED <<qvars, xvars>>
    \/ Return /\ UNCHANGED <<qvars, xvars>>

Spec == Init /\ [][Next]_vars

\* The writer/verifier under every answer of the content store and the cache;
\* the translation is a machine translation no reviewer has touched.
WNext ==
    \/ EditSource /\ UNCHANGED <<qvars, xvars>>
    \/ StartRun /\ UNCHANGED <<qvars, xvars>>
    \/ Translate /\ UNCHANGED <<qvars, xvars>>
    \/ WriteSegment /\ UNCHANGED <<qvars, xvars>>
    \/ Finish /\ UNCHANGED <<qvars, xvars>>
    \/ Return /\ UNCHANGED <<qvars, xvars>>

SpecWrite == Init /\ [][WNext]_vars

\* The job queue with NumWorkers concurrent process_queue calls.
QNext ==
    \/ Enqueue /\ UNCHANGED <<gvars, xvars>>
    \/ FetchJobs /\ UNCHANGED <<gvars, xvars>>
    \/ SkipLang /\ UNCHANGED <<gvars, xvars>>
    \/ StartJob /\ UNCHANGED <<gvars, xvars>>
    \/ EndJob /\ UNCHANGED <<gvars, xvars>>
    \/ Commit /\ UNCHANGED <<gvars, xvars>>
    \/ Restart /\ UNCHANGED <<gvars, xvars>>

SpecQueue == Init /\ [][QNext]_vars

\* The cache partition over documents that share the cache store.
CNext ==
    \/ CEditSource /\ UNCHANGED <<gvars, qvars, lvars, pvars, rvars, mvars, svars, uvars, nvars, ivars, ovars, tvars, dvars, kvars, fvars, hvars, yvars>>
    \/ CPartition /\ UNCHANGED <<gvars, qvars, lvars, pvars, rvars, mvars, svars, uvars, nvars, ivars, ovars, tvars, dvars, kvars, fvars, hvars, yvars>>
    \/ CComplete /\ UNCHANGED <<gvars, qvars, lvars, pvars, rvars, mvars, svars, uvars, nvars, ivars, ovars, tvars, dvars, kvars, fvars, hvars, yvars>>

SpecCache == Init /\ [][CNext]_vars

\* The link tokens of a segment through translation, fallback and write.
LNext ==
    \/ LTranslate /\ UNCHANGED <<gvars, qvars, cvars, pvars, rvars, mvars, svars, uvars, nvars, ivars, ovars, tvars, dvars, kvars, fvars, hvars, yvars>>
    \/ LRestore /\ UNCHANGED <<gvars, qvars, cvars, pvars, rvars, mvars, svars, uvars, nvars, ivars, ovars, tvars, dvars, kvars, fvars, hvars, yvars>>
    \/ LWrite /\ UNCHANGED <<gvars, qvars, cvars, pvars, rvars, mvars, svars, uvars, nvars, ivars, ovars, tvars, dvars, kvars, fvars, hvars, yvars>>
    \/ LReturn /\ UNCHANGED <<gvars, qvars, cvars, pvars, rvars, mvars, svars, uvars, nvars, ivars, ovars, tvars, dvars, kvars, fvars, hvars, yvars>>

SpecLinks == Init /\ [][LNext]_vars

\* protect_wikitext and restore_wikitext on every source text of SourceTexts.
PNext ==
    \/ PChoose /\ UNCHANGED <<gvars, qvars, cvars, lvars, rvars, mvars, svars, uvars, nvars, ivars, ovars, tvars, dvars, kvars, fvars, hvars, yvars>>
    \/ PProtect /\ UNCHANGED <<gvars, qvars, cvars, lvars, rvars, mvars, svars, uvars, nvars, ivars, ovars, tvars, dvars, kvars, fvars, hvars, yvars>>
    \/ PRestore /\ UNCHANGED <<gvars, qvars, cvars, lvars, rvars, mvars, svars, uvars, nvars, ivars, ovars, tvars, dvars, kvars, fvars, hvars, yvars>>
    \/ PReset /\ UNCHANGED <<gvars, qvars, cvars, lvars, rvars, mvars, svars, uvars, nvars, ivars, ovars, tvars, dvars, kvars, fvars, hvars, yvars>>

SpecPlaceholders == Init /\ [][PNext]_vars

\* The language suffix of a link target under the rewriting functions.
RNext ==
    \/ RChoose /\ UNCHANGED <<gvars, qvars, cvars, lvars, pvars, mvars, svars, uvars, nvars, ivars, ovars, tvars, dvars, kvars, fvars, hvars, yvars>>
    \/ RRewrite /\ UNCHANGED <<gvars, qvars, cvars, lvars, pvars, mvars, svars, uvars, nvars, ivars, ovars, tvars, dvars, kvars, fvars, hvars, yvars>>
    \/ RNextLink /\ UNCHANGED <<gvars, qvars, cvars, lvars, pvars, mvars, svars, uvars, nvars, ivars, ovars, tvars, dvars, kvars, fvars, hvars, yvars>>

SpecSuffix == Init /\ [][RNext]_vars

\* The composition of the metadata segment and of one other segment.
MNext ==
    \/ MChoose /\ UNCHANGED <<gvars, qvars, cvars, lvars, pvars, rvars, svars, uvars, nvars, ivars, ovars, tvars, dvars, kvars, fvars, hvars, yvars>>
    \/ MCompose /\ UNCHANGED <<gvars, qvars, cvars, lvars, pvars, rvars, svars, uvars, nvars, ivars, ovars, tvars, dvars, kvars, fvars, hvars, yvars>>
    \/ MReturn /\ UNCHANGED <<gvars, qvars, cvars, lvars, pvars, rvars, svars, uvars, nvars, ivars, ovars, tvars, dvars, kvars, fvars, hvars, yvars>>

SpecMeta == Init /\ [][MNext]_vars

\* A status marker is built, put into a text and parsed.
SNext ==
    \/ SChoose /\ UNCHANGED <<gvars, qvars, cvars, lvars, pvars, rvars, mvars, uvars, nvars, ivars, ovars, tvars, dvars, kvars, fvars, hvars, yvars>>
    \/ SBuild /\ UNCHANGED <<gvars, qvars, cvars, lvars, pvars, rvars, mvars, uvars, nvars, ivars, ovars, tvars, dvars, kvars, fvars, hvars, yvars>>
    \/ SParse /\ UNCHANGED <<gvars, qvars, cvars, lvars, pvars, rvars, mvars, uvars, nvars, ivars, ovars, tvars, dvars, kvars, fvars, hvars, yvars>>
    \/ SReturn /\ UNCHANGED <<gvars, qvars, cvars, lvars, pvars, rvars, mvars, uvars, nvars, ivars, ovars, tvars, dvars, kvars, fvars, hvars, yvars>>

SpecStatus == Init /\ [][SNext]_vars

\* The write of one unit whose stored text is read first.
UNext ==
    \/ UChoose /\ UNCHANGED <<gvars, qvars, cvars, lvars, pvars, rvars, mvars, svars, nvars, ivars, ovars, tvars, dvars, kvars, fvars, hvars, yvars>>
    \/ UWrite /\ UNCHANGED <<gvars, qvars, cvars, lvars, pvars, rvars, mvars, svars, nvars, ivars, ovars, tvars, dvars, kvars, fvars, hvars, yvars>>
    \/ UReturn /\ UNCHANGED <<gvars, qvars, cvars, lvars, pvars, rvars, mvars, svars, nvars, ivars, ovars, tvars, dvars, kvars, fvars, hvars, yvars>>

SpecUnit == Init /\ [][UNext]_vars

\* The plan for one segment: copy, cache or provider.
NNext ==
    \/ NChoose /\ UNCHANGED <<gvars, qvars, cvars, lvars, pvars, rvars, mvars, svars, uvars, ivars, ovars, tvars, dvars, kvars, fvars, hvars, yvars>>
    \/ NPlan /\ UNCHANGED <<gvars, qvars, cvars, lvars, pvars, rvars, mvars, svars, uvars, ivars, ovars, tvars, dvars, kvars, fvars, hvars, yvars>>
    \/ NReturn /\ UNCHANGED <<gvars, qvars, cvars, lvars, pvars, rvars, mvars, svars, uvars, ivars, ovars, tvars, dvars, kvars, fvars, hvars, yvars>>

SpecClassify == Init /\ [][NNext]_vars

\* Calls of ingest_all with a limit, one after the other.
INext ==
    \/ IStart /\ UNCHANGED <<gvars, qvars, cvars, lvars, pvars, rvars, mvars, svars, uvars, nvars, ovars, tvars, dvars, kvars, fvars, hvars, yvars>>
    \/ IFetch /\ UNCHANGED <<gvars, qvars, cvars, lvars, pvars, rvars, mvars, svars, uvars, nvars, ovars, tvars, dvars, kvars, fvars, hvars, yvars>>
    \/ ITitle /\ UNCHANGED <<gvars, qvars, cvars, lvars, pvars, rvars, mvars, svars, uvars, nvars, ovars, tvars, dvars, kvars, fvars, hvars, yvars>>

SpecIngest == Init /\ [][INext]_vars

\* Invocations of the runner with --poll-once, one after the other, and the
\* edits of the users.
ONext ==
    \/ OEdit /\ UNCHANGED <<gvars, qvars, cvars, lvars, pvars, rvars, mvars, svars, uvars, nvars, ivars, tvars, dvars, kvars, fvars, hvars, yvars>>
    \/ OStart /\ UNCHANGED <<gvars, qvars, cvars, lvars, pvars, rvars, mvars, svars, uvars, nvars, ivars, tvars, dvars, kvars, fvars, hvars, yvars>>
    \/ OPoll /\ UNCHANGED <<gvars, qvars, cvars, lvars, pvars, rvars, mvars, svars, uvars, nvars, ivars, tvars, dvars, kvars, fvars, hvars, yvars>>
    \/ OPlan /\ UNCHANGED <<gvars, qvars, cvars, lvars, pvars, rvars, mvars, svars, uvars, nvars, ivars, tvars, dvars, kvars, fvars, hvars, yvars>>
    \/ OIngest /\ UNCHANGED <<gvars, qvars, cvars, lvars, pvars, rvars, mvars, svars, uvars, nvars, ivars, tvars, dvars, kvars, fvars, hvars, yvars>>
    \/ OProcess /\ UNCHANGED <<gvars, qvars, cvars, lvars, pvars, rvars, mvars, svars, uvars, nvars, ivars, tvars, dvars, kvars, fvars, hvars, yvars>>
    \/ OCommit /\ UNCHANGED <<gvars, qvars, cvars, lvars, pvars, rvars, mvars, svars, uvars, nvars, ivars, tvars, dvars, kvars, fvars, hvars, yvars>>
    \/ OReturn /\ UNCHANGED <<gvars, qvars, cvars, lvars, pvars, rvars, mvars, svars, uvars, nvars, ivars, tvars, dvars, kvars, fvars, hvars, yvars>>

SpecPollOnce == Init /\ [][ONext]_vars

\* Calls of MediaWikiClient._request under every answer of the wiki.
TNext ==
    \/ TCall /\ UNCHANGED <<gvars, qvars, cvars, lvars, pvars, rvars, mvars, svars, uvars, nvars, ivars, ovars, dvars, kvars, fvars, hvars, yvars>>
    \/ TSend /\ UNCHANGED <<gvars, qvars, cvars, lvars, pvars, rvars, mvars, svars, uvars, nvars, ivars, ovars, dvars, kvars, fvars, hvars, yvars>>
    \/ TReturn /\ UNCHANGED <<gvars, qvars, cvars, lvars, pvars, rvars, mvars, svars, uvars, nvars, ivars, ovars, dvars, kvars, fvars, hvars, yvars>>

SpecRequest == Init /\ [][TNext]_vars

\* The display texts of the links of one run.
DNext ==
    \/ DChoose /\ UNCHANGED <<gvars, qvars, cvars, lvars, pvars, rvars, mvars, svars, uvars, nvars, ivars, ovars, tvars, kvars, fvars, hvars, yvars>>
    \/ DTranslate /\ UNCHANGED <<gvars, qvars, cvars, lvars, pvars, rvars, mvars, svars, uvars, nvars, ivars, ovars, tvars, kvars, fvars, hvars, yvars>>
    \/ DRestore /\ UNCHANGED <<gvars, qvars, cvars, lvars, pvars, rvars, mvars, svars, uvars, nvars, ivars, ovars, tvars, kvars, fvars, hvars, yvars>>
    \/ DReturn /\ UNCHANGED <<gvars, qvars, cvars, lvars, pvars, rvars, mvars, svars, uvars, nvars, ivars, ovars, tvars, kvars, fvars, hvars, yvars>>

SpecDisplay == Init /\ [][DNext]_vars

\* The drain loop of one process; its steps are taken as long as one is
\* enabled.
KNext ==
    \/ KEnqueue /\ UNCHANGED <<gvars, qvars, cvars, lvars, pvars, rvars, mvars, svars, uvars, nvars, ivars, ovars, tvars, dvars, fvars, hvars, yvars>>
    \/ KBegin /\ UNCHANGED <<gvars, qvars, cvars, lvars, pvars, rvars, mvars, svars, uvars, nvars, ivars, ovars, tvars, dvars, fvars, hvars, yvars>>
    \/ KCheck /\ UNCHANGED <<gvars, qvars, cvars, lvars, pvars, rvars, mvars, svars, uvars, nvars, ivars, ovars, tvars, dvars, fvars, hvars, yvars>>
    \/ KFetch /\ UNCHANGED <<gvars, qvars, cvars, lvars, pvars, rvars, mvars, svars, uvars, nvars, ivars, ovars, tvars, dvars, fvars, hvars, yvars>>
    \/ KJob /\ UNCHANGED <<gvars, qvars, cvars, lvars, pvars, rvars, mvars, svars, uvars, nvars, ivars, ovars, tvars, dvars, fvars, hvars, yvars>>
    \/ KCommit /\ UNCHANGED <<gvars, qvars, cvars, lvars, pvars, rvars, mvars, svars, uvars, nvars, ivars, ovars, tvars, dvars, fvars, hvars, yvars>>

SpecDrain ==
    /\ Init
    /\ [][KNext]_vars
    /\ WF_vars(KRun /\ UNCHANGED <<gvars, qvars, cvars, lvars, pvars, rvars, mvars, svars, uvars, nvars, ivars, ovars, tvars, dvars, fvars, hvars, yvars>>)

\* Runs of the runner in run-all or poll-once mode, one after the other.
FNext ==
    \/ FStart /\ UNCHANGED <<gvars, qvars, cvars, lvars, pvars, rvars, mvars, svars, uvars, nvars, ivars, ovars, tvars, dvars, kvars, hvars, yvars>>
    \/ FWork /\ UNCHANGED <<gvars, qvars, cvars, lvars, pvars, rvars, mvars, svars, uvars, nvars, ivars, ovars, tvars, dvars, kvars, hvars, yvars>>
    \/ FFinish /\ UNCHANGED <<gvars, qvars, cvars, lvars, pvars, rvars, mvars, svars, uvars, nvars, ivars, ovars, tvars, dvars, kvars, hvars, yvars>>
    \/ FExcept /\ UNCHANGED <<gvars, qvars, cvars, lvars, pvars, rvars, mvars, svars, uvars, nvars, ivars, ovars, tvars, dvars, kvars, hvars, yvars>>
    \/ FRestart /\ UNCHANGED <<gvars, qvars, cvars, lvars, pvars, rvars, mvars, svars, uvars, nvars, ivars, ovars, tvars, dvars, kvars, hvars, yvars>>

SpecRunRecord == Init /\ [][FNext]_vars

\* Source edits and translation runs of one document in several languages.
HNext ==
    \/ HEditSource /\ UNCHANGED <<gvars, qvars, cvars, lvars, pvars, rvars, mvars, svars, uvars, nvars, ivars, ovars, tvars, dvars, kvars, fvars, yvars>>
    \/ HRun /\ UNCHANGED <<gvars, qvars, cvars, lvars, pvars, rvars, mvars, svars, uvars, nvars, ivars, ovars, tvars, dvars, kvars, fvars, yvars>>

SpecCacheWriter == Init /\ [][HNext]_vars

\* One run of translate_page.main after the other, by its flags.
YNext ==
    \/ YStart /\ UNCHANGED <<gvars, qvars, cvars, lvars, pvars, rvars, mvars, svars, uvars, nvars, ivars, ovars, tvars, dvars, kvars, fvars, hvars>>
    \/ YApproveOnly /\ UNCHANGED <<gvars, qvars, cvars, lvars, pvars, rvars, mvars, svars, uvars, nvars, ivars, ovars, tvars, dvars, kvars, fvars, hvars>>
    \/ YGate /\ UNCHANGED <<gvars, qvars, cvars, lvars, pvars, rvars, mvars, svars, uvars, nvars, ivars, ovars, tvars, dvars, kvars, fvars, hvars>>
    \/ YDisplayTitle /\ UNCHANGED <<gvars, qvars, cvars, lvars, pvars, rvars, mvars, svars, uvars, nvars, ivars, ovars, tvars, dvars, kvars, fvars, hvars>>
    \/ YWrite /\ UNCHANGED <<gvars, qvars, cvars, lvars, pvars, rvars, mvars, svars, uvars, nvars, ivars, ovars, tvars, dvars, kvars, fvars, hvars>>
    \/ YClearFuzzy /\ UNCHANGED <<gvars, qvars, cvars, lvars, pvars, rvars, mvars, svars, uvars, nvars, ivars, ovars, tvars, dvars, kvars, fvars, hvars>>
    \/ YSyncStatus /\ UNCHANGED <<gvars, qvars, cvars, lvars, pvars, rvars, mvars, svars, uvars, nvars, ivars, ovars, tvars, dvars, kvars, fvars, hvars>>
    \/ YApprove /\ UNCHANGED <<gvars, qvars, cvars, lvars, pvars, rvars, mvars, svars, uvars, nvars, ivars, ovars, tvars, dvars, kvars, fvars, hvars>>
    \/ YAiStatus /\ UNCHANGED <<gvars, qvars, cvars, lvars, pvars, rvars, mvars, svars, uvars, nvars, ivars, ovars, tvars, dvars, kvars, fvars, hvars>>
    \/ YReturn /\ UNCHANGED <<gvars, qvars, cvars, lvars, pvars, rvars, mvars, svars, uvars, nvars, ivars, ovars, tvars, dvars, kvars, fvars, hvars>>

SpecCalls == Init /\ [][YNext]_vars

\* ----------------------------------------------------------------- claims
\* The statuses the three stored sources hold for the translation.
StoredStatuses ==
    {Lower(x) : x \in ({aiInfo.status, props.st}
                       \cup (IF units[1].kind # "missing" THEN {units[1].tpl.st} ELSE {}))
                      \ {"", NoKey}}
StoredReviewed == StoredStatuses = {"reviewed"}
StoredOutdated == StoredStatuses = {"outdated"}

\* A step of a run, as opposed to a step of the environment.
RunStep == ~(pc = "idle" /\ pc' = "idle")

NumWrites(k) == Cardinality({i \in 1..Len(log.writes) : log.writes[i] = k})

\* C1: while every source that stores a status stores `reviewed`, no step of
\* a run replaces a translation unit by machine-translated text, whatever the
\* reads of the status sources returned.
C1_ReviewedNeverOverwritten ==
    [][StoredReviewed =>
          \A k \in Keys : units'[k] = units[k] \/ units'[k].kind # "mt"]_vars

\* C2: a run whose merged status is `reviewed` with the recorded source
\* revision equal to the current one ends at the gate with outcome
\* locked_reviewed, without an edit, a provider call or a status write.
C2_LockedReviewed ==
    (status = "reviewed" /\ status_meta.rev = sourceRev) =>
        /\ pc = "done"
        /\ result = "locked_reviewed"
        /\ log.writes = <<>>
        /\ log.provider = 0
        /\ log.ai = <<>>

C2_Witness ==
    /\ pc = "done"
    /\ status = "reviewed"
    /\ status_meta.rev = sourceRev
    /\ result = "locked_reviewed"

\* C3: a run (not a dry run) whose merged status is `reviewed` with a recorded
\* source revision other than the current one, or none, ends with outcome
\* outdated after exactly one edit, of the metadata segment, whose marker then
\* says outdated, and without a provider call.
C3_ExactlyOneWrite ==
    (pc = "done" /\ status = "reviewed" /\ status_meta.rev # sourceRev /\ ~args.dry_run) =>
        /\ result = "outdated"
        /\ log.writes = <<1>>
        /\ units[1].tpl.st = "outdated"
        /\ log.provider = 0

\* C4: the marker the reviewed-to-outdated transition writes into the metadata
\* segment carries status=outdated and outdated_source_rev = current revision.
C4_MarkerCarriesOutdatedRev ==
    (pc = "done" /\ result = "outdated" /\ log.writes = <<1>>) =>
        /\ units[1].tpl.st = "outdated"
        /\ units[1].tpl.orev = sourceRev

\* C5: while every source that stores a status stores `outdated`, a run
\* changes nothing in the content store and ends locked_outdated (or fails
\* before the gate, or skips a redirect).
C5_OutdatedStaysLocked ==
    [][(StoredOutdated /\ RunStep) =>
          /\ <<sourceRev, aiInfo, props, units>>' = <<sourceRev, aiInfo, props, units>>
          /\ pc' \in {"done", "idle"}
          /\ (pc' = "done" => result' \in {"locked_outdated", "error", "skip_redirect"})]_vars

FirstReported(a, b, c, none) == IF a # none THEN a ELSE IF b # none THEN b ELSE c
PrecedenceMerge(r) ==
    [st   |-> FirstReported(r.ai.st, r.props.st, r.unit1.st, NoKey),
     rev  |-> FirstReported(r.ai.rev, r.props.rev, r.unit1.rev, NoRev),
     orev |-> FirstReported(r.ai.orev, r.props.orev, r.unit1.orev, NoRev)]

\* C6: every field of the merged status metadata is the value of the
\* highest-precedence source that reported the field (ai info, then page
\* props, then the marker of the metadata segment), and the status is machine
\* when no source reported one.
C6_HighestPrecedenceWins ==
    status # "none" =>
        /\ status_meta = PrecedenceMerge(rep)
        /\ (status_meta.st = NoKey => status = "machine")

InQueue(w) == wpc[w] \in {"loop", "running"}
BatchSet(w) == {batch[w][i] : i \in 1..Len(batch[w])}

\* C7: two workers inside process_queue at the same time hold no job in
\* common, and never run the same job at the same time.
C7_NoJobHandedTwice ==
    \A w1 \in Workers, w2 \in Workers :
        (w1 # w2 /\ InQueue(w1) /\ InQueue(w2)) => BatchSet(w1) \cap BatchSet(w2) = {}

\* C8: when the run of a job raised SystemExit, process_queue returns normally
\* and the job is marked error, not done.
C8_SystemExitMarksError ==
    \A w \in Workers :
        exitJob[w] # 0 =>
            /\ wpc[w] # "exited"
            /\ (wpc[w] = "returned" => jobs[exitJob[w]].status = "error")

\* C9: a segment whose first read-back mismatched and whose second read-back
\* matched is saved after exactly two edits of the write/verify loop (one
\* retry), and the run goes on to the next segment instead of failing.
C9_RetryThenSaved ==
    \A k \in Keys :
        log.rb[k] = <<"mismatch", "match">> =>
            /\ k \in log.saved
            /\ log.attempts[k] = 2
            /\ log.failKey # k
            /\ idx > k

C9_Witness ==
    /\ pc = "done"
    /\ result = "ok"
    /\ log.rb[1] = <<"mismatch", "match">>
    /\ log.attempts[1] = 2
    /\ 1 \in log.saved

FailedAt(k) ==
    /\ pc = "done"
    /\ result = "error"
    /\ log.failKey = k
    /\ k \notin log.cache
    /\ k \notin log.saved
    /\ \A j \in Keys : j > k => NumWrites(j) = 0
    /\ log.writes[Len(log.writes)] = k
SecondMismatch(k) == Len(log.rb[k]) = 2 /\ log.rb[k][2] # "match"

\* C10 as stated: no segment is edited more than twice in one run; after a
\* second mismatching read-back the run has failed at that segment, nothing
\* was edited after it and no cache entry was stored for it.
C10_AtMostTwoWrites ==
    /\ \A k \in Keys : NumWrites(k) <= 2
    /\ \A k \in Keys : SecondMismatch(k) => FailedAt(k)

\* C10 amended: the write/verify loop edits a segment at most twice (the
\* clear-fuzzy pass after the loop may edit it once more); after a second
\* mismatching read-back the run has failed at that segment, nothing was
\* edited after it and no cache entry was stored for it.
C10_AtMostTwoAttempts ==
    /\ \A k \in Keys : log.attempts[k] <= 2 /\ NumWrites(k) <= log.attempts[k] + 1
    /\ \A k \in Keys : SecondMismatch(k) => FailedAt(k)

C10_Witness ==
    /\ SecondMismatch(1)
    /\ FailedAt(1)
    /\ log.attempts[1] = 2

\* C11: every cache entry a run stored is for a segment whose write the run
\* verified by a matching read-back; a dry run stores none, and no entry is
\* stored for a segment whose verification failed.
C11_CacheOnlyAfterVerifiedWrite ==
    /\ \A k \in log.cache :
          /\ k \in log.saved
          /\ log.rb[k] # <<>>
          /\ log.rb[k][Len(log.rb[k])] = "match"
          /\ log.failKey # k
    /\ (args.dry_run => log.cache = {})
    /\ \A k \in Keys : SecondMismatch(k) => k \notin log.cache

C11_Witness ==
    /\ pc = "done"
    /\ 1 \in log.cache
    /\ SecondMismatch(2)
    /\ 2 \notin log.cache

\* The store as a completed run on the current source revision leaves it:
\* every unit holds the text the run composes and the recorded status is
\* machine at this revision.
StoreCurrent ==
    /\ \A k \in Keys : units[k] = Intended(k, sourceRev)
    /\ aiInfo = [status |-> "machine", source_rev |-> sourceRev, outdated_source_rev |-> 0]

\* C12: a run that starts on the store a completed run left, with the source
\* unchanged, makes no write to the content store: no edit of a unit and no
\* write of the status metadata.
C12_SecondRunWritesNothing ==
    [][(pc = "finish" /\ ~args.dry_run /\ StoreCurrent /\ log.writes = <<>>) =>
          (log'.writes = <<>> /\ log'.ai = <<>>)]_vars

\* The strict template is in the cached text exactly when it is in the source.
StrictMatches(src, e) == (src = "boxed") <=> e.strict

\* Another document holds the same text under some key, and the cache holds
\* the translation stored for it.
SharedAndTranslated(d, k) ==
    \E d2 \in Docs \ {d}, j \in Keys :
        /\ csrc[d2][j] = csrc[d][k]
        /\ trtab[d2][j] # NoEntry
        /\ trtab[d2][j].sum = <<"sha256", csrc[d][k]>>

Served(k) == crun.hit[k].via # "" /\ k \notin crun.to_translate

C14_KeySetChangedDisablesCache ==
    cpc = "partitioned" =>
        LET recorded == {k \in Keys : segtab[crun.doc][k] # NoSum}
        IN  (recorded # {} /\ recorded # CurrentKeys(crun.doc)) =>
                \A k \in Keys : crun.hit[k].via = ""

C16_FallbackLossIsFatal ==
    /\ (lpc \in {"restored", "written"} /\ lrun.first # lrun.required) => lrun.fallback
    /\ lpc = "written" => lrun.restored = lseg

\* C17: a run that is not a dry run ends with the outcome outdated only when
\* the outdated status is in the content store: a read or a write of the
\* metadata segment that fails in the transition makes the run fail.
C17_OutdatedOnlyIfPersisted ==
    (pc = "done" /\ result = "outdated" /\ ~args.dry_run) =>
        (units[1].tpl.st = "outdated" /\ log.writes = <<1>>)

\* The run of job j returned res to worker w, whose transaction is open.
Returned(w, j, res) == wpc[w] \in {"loop", "running"} /\ ret[w][j] = res

\* process_queue logged item for the job and marked it done, not error.
Reported(w, j, item) == prow[w][j].item = item /\ pend[w][j] = "done"

C19_RoundTrip ==
    ppc = "restored" => pres.restored = ptext

\* The page ends in exactly one language suffix, lang.
OneSuffix(page, lang) ==
    /\ Len(page) > 1
    /\ page[Len(page)] = lang
    /\ (Len(page) > 2 => page[Len(page) - 1] \notin {"de", "fr"})

\* C20: a link target that a rewriting function changed for language L ends
\* in /L and in no second language suffix before it: a known language suffix
\* the target had is stripped, not kept under /L.
C20_NeverStacked ==
    (rpc = "rewritten" /\ rout.page # rpage) => OneSuffix(rout.page, rlang)

\* The target name of the link without a language suffix.
UntranslatedName == IF Len(rpage) > 1 /\ rpage[Len(rpage)] \in {"de", "fr"}
                    THEN SubSeq(rpage, 1, Len(rpage) - 1) ELSE rpage
HasLocalized == UntranslatedName \in rlocal
Rewritten == rpc = "rewritten" /\ rout.fn = "rewrite"

RECURSIVE LeadingDirectives(_)
LeadingDirectives(line) ==
    IF line = <<>> \/ Head(line) \notin MetaItems THEN <<>>
    ELSE <<Head(line)>> \o LeadingDirectives(Tail(line))

\* The number of times the item stands in the text.
RECURSIVE CountItem(_, _)
CountItem(text, x) ==
    IF text = <<>> THEN 0
    ELSE Len(SelectSeq(Head(text), LAMBDA y : y = x)) + CountItem(Tail(text), x)

DirectiveRank(x) == CASE x = "TS" -> 1 [] x = "DT" -> 2 [] x = "NOTOC" -> 3 [] OTHER -> 4

\* A run that composes the metadata segment with a display title, from a
\* translated text that holds no status marker and at most one directive of
\* each kind.
ComposedPlain ==
    /\ mpc = "composed"
    /\ strip_dt(mrun) /\ has_title(mrun)
    /\ CountItem(mtext, "TS") = 0
    /\ \A x \in {"DT", "NOTOC", "FILE"} : CountItem(mtext, x) <= 1

\* C22: after metadata composition the metadata segment starts with its
\* directives in the fixed order status marker, display title, __NOTOC__,
\* file reference, with no blank line between them and none before the body,
\* whatever order and spacing the directives had in the translated text.
C22_FixedLeadingOrder ==
    ComposedPlain =>
        LET d == LeadingDirectives(mout.meta[1])
        IN  /\ Len(d) >= 2 /\ d[1] = "TS" /\ d[2] = "DT"
            /\ \A i, j \in 1 .. Len(d) : i < j => DirectiveRank(d[i]) < DirectiveRank(d[j])
            /\ (Len(mout.meta) > 1 => Len(d) < Len(mout.meta[1]) \/ mout.meta[2] # <<>>)

\* C23: after a run the metadata segment holds exactly one status marker and
\* exactly one display title, and no other segment the run writes holds a
\* status marker or a display title, also when it was served from the cache.
C23_SoleCarrier ==
    (mpc = "composed" /\ ~mrun.rebuild_only) =>
        /\ CountItem(mout.meta, "TS") = 1
        /\ CountItem(mout.meta, "DT") = 1
        /\ mrun.writable =>
              CountItem(mout.other, "TS") = 0 /\ CountItem(mout.other, "DT") = 0

\* The fields _build_status_template emits: status, and each other field
\* that was given a value.
Emitted(fields) ==
    [k \in 1 .. 5 |-> IF k = 1 \/ Truthy(fields[k]) THEN fields[k] ELSE NoValue]

\* C24: parsing a status marker that _build_status_template emitted returns
\* exactly the fields that were emitted, each with its value, and no field
\* that was left out, for every combination of present and absent fields.
C24_ParseReturnsEmitted ==
    spc = "parsed" => sparsed = Emitted(sfields)

C24_Witness ==
    /\ spc = "parsed"
    /\ sfields = <<<<"a">>, <<"1", "2">>, NoValue, <<"a", "=", "b">>, <<"1", "2">>>>
    /\ sparsed = sfields
    /\ stext[Len(stext)] = "w"

\* The unit is held by the store and the new text equals the stored text
\* after normalization, in a run that writes.
SameAfterNormalization ==
    /\ upc = "done"
    /\ ~urun.dry_run
    /\ ucur # NoUnitText
    /\ normalized_text_equivalent(ucur) = normalized_text_equivalent(unew)

C26_NonLinguisticIffNoLetters ==
    npc = "planned" =>
        LET letters == \E i \in 1 .. Len(ntext) : ntext[i] \in {"ascii", "letter"}
        IN  /\ nout.via = "source-copy" <=> ~letters
            /\ ~letters => nout.copied /\ ~nout.provider
            /\ letters => ~nout.copied

C27_CursorOnlyAfterDrain ==
    [][/\ ocursor' # ocursor =>
             /\ opc = "drained" /\ opc' = "done"
             /\ oqueue = {}
             /\ ~orun.dry_run
             /\ ocursor' = [c \in 1 .. NumCursors |-> orun.polled[c].new_since]
       /\ opc' = "aborted" => ocursor' = orun.cursors]_vars

\* A run that polled changes beyond its cursor and processed jobs has
\* aborted, after an earlier run had advanced the cursor.
C27_Witness ==
    /\ opc = "aborted"
    /\ ~orun.dry_run
    /\ orun.processed # {}
    /\ \E c \in 1 .. NumCursors :
          /\ ocursor[c] > 0
          /\ orun.polled[c].new_since > ocursor[c]
          /\ ocursor[c] = orun.cursors[c]

FeedFrom(feed, since) ==
    LET first == IF since = 0 THEN 1 ELSE since
    IN  [k \in 1 .. (Len(feed) - first + 1) |->
            [title |-> feed[first + k - 1], timestamp |-> first + k - 1]]

\* C30: the changes poll_recent_changes returns are the first changes of
\* the feed from the cursor on, in feed order; without a limit they are all
\* of them; with a positive limit they are no more than limit, fewer only
\* when the feed has no more, and every request was made with fewer than
\* limit changes collected; the new cursor is the time stamp of the last
\* change returned, or since when none is returned.
C30_PollFollowsFeedUpToLimit ==
    \A c \in 1 .. NumCursors :
        LET p     == orun.polled[c]
            since == orun.cursors[c]
            w     == FeedFrom(orun.feed, since)
            n     == Len(p.changes)
        IN  p.requests > 0 =>
              /\ n <= Len(w)
              /\ \A k \in 1 .. n : p.changes[k] = w[k]
              /\ orun.limit = 0 => n = Len(w)
              /\ orun.limit > 0 =>
                    /\ n <= orun.limit
                    /\ n < orun.limit => n = Len(w)
                    /\ (p.requests - 1) * RcLimit < orun.limit
              /\ p.new_since = IF n > 0 THEN p.changes[n].timestamp ELSE since

\* A poll with a limit has followed a continuation token and stopped at the
\* limit with changes left in the feed.
C30_Witness ==
    /\ opc = "polled"
    /\ orun.limit > 0
    /\ \E c \in 1 .. NumCursors :
          /\ orun.polled[c].requests = 2
          /\ Len(orun.polled[c].changes) = orun.limit
          /\ Len(FeedFrom(orun.feed, orun.cursors[c])) > orun.limit

\* The frame of a call has ended.
Ended(f) == f.result \in {"data", "MediaWikiError", "HTTPError"}

C32_OwnDisplayTranslated ==
    dpc = "restored" =>
        \A k \in 1 .. Len(dlinks) :
            (dlinks[k].display # NoLabel /\ should_translate_display(dlinks[k].display)) =>
                dout[k] = engine_translate(dlinks[k].display)

\* C34: the status of a job row changes only from queued to done or from
\* queued to error (a new row starts as queued); a row that is done or error
\* keeps its status.
C34_StatusOnlyFromQueued ==
    [][\A j \in JobIds :
          jobs'[j].status # jobs[j].status =>
             \/ jobs[j].status = "none" /\ jobs'[j].status = "queued"
             \/ jobs[j].status = "queued" /\ jobs'[j].status \in {"done", "error"}]_vars

\* C35: once the drain loop is entered it ends, and when it has ended no
\* row of table jobs is queued.
C35_DrainTerminates ==
    (kpc = "check") ~> (kpc = "ended" /\ \A j \in 1 .. Len(kjobs) : kjobs[j] # "queued")

\* The loop has ended after two calls of process_queue, with a job marked
\* error.
C35_Witness ==
    /\ kpc = "ended"
    /\ kcalls = 2
    /\ \E j \in 1 .. Len(kjobs) : kjobs[j] = "error"

\* C36: when the process of a run-all or poll-once run has ended, the row
\* that its start_run created has status done or error.
C36_RunRecordClosed ==
    (fpc = "exited" /\ frun_id \in 1 .. Len(fruns)) =>
        fruns[frun_id] \in {"done", "error"}

\* C37: after a successful run that read the cache and bypassed it because
\* the recorded keys were not the keys of the document, the keys recorded for
\* the document are its current keys.
C37_KeySetRecordedAfterBypass ==
    (hlast.ok /\ hlast.store /\ hlast.disable_cache) =>
        {k \in Keys : hseg[k] # NoSum} = {k \in Keys : hsrc[k] # NoText}

\* C38 as stated: after a successful run with the cache store available,
\* every segment of the document has a recorded checksum and a cached
\* translation for the language of the run.
C38_EverySegmentRecorded ==
    (hlast.ok /\ hlast.store) =>
        \A k \in Keys : hsrc[k] # NoText =>
            hseg[k] # NoSum /\ htr[hlast.lang][k] # NoCached

\* C38 amended: after a successful run with the cache store available,
\* every segment whose unit the run wrote and verified has the checksum of
\* its text recorded and the written text cached for the language with that
\* checksum.
C38_WrittenSegmentsRecorded ==
    (hlast.ok /\ hlast.store) =>
        \A k \in hlast.written :
            /\ hseg[k] = Checksum(hsrc[k])
            /\ htr[hlast.lang][k] = [sum |-> Checksum(hsrc[k]), text |-> hunit[hlast.lang][k]]

C38_Witness ==
    /\ hlast.ok
    /\ hlast.store
    /\ hlast.written # {}
    /\ \E k \in Keys : hsrc[k] # NoText /\ k \notin hlast.written /\ hseg[k] = NoSum

C39_DryRunMakesNoCall ==
    yargs.dry_run => ycalls = {}

====
